---- MODULE Spec2Model ----
(***************************************************************************)
(* Model of the canvas / WebGL anti-fingerprinting scripts:                *)
(*   spoofing/bootstrap.js  (canvas module: init, patch, unpatch, the      *)
(*                           wrappers, tryOrFallback, createPRNG)          *)
(*   spoofing/core.js       (createPRNG, tryOrFallback)                    *)
(*   browser-entry.js       (WebGL module: initialize, disable,            *)
(*                           installContextHook, applyWebGLSpoofing)       *)
(*                                                                         *)
(* The injection harness (sessionManager/injectSpoofing.js) loads the      *)
(* canvas script alone, so each module is modelled on a page of its own:   *)
(* proto is the canvas module's page, glProto the WebGL module's.          *)
(*                                                                         *)
(* Spec       installs and uninstalls of both modules on hosts whose       *)
(*            property accesses may throw.                                 *)
(* SpecCalls  installs and uninstalls on hosts that do not throw, and the  *)
(*            calls the page makes through whatever is installed.          *)
(***************************************************************************)
EXTENDS Integers, Sequences, FiniteSets, TLC

VARIABLES
  proto,               \* canvas page: prototype method -> function reference
  originalMethods,     \* canvas module: captured originals
  isPatched,           \* canvas module: patched flag
  glProto,             \* WebGL page: HTMLCanvasElement.prototype.getContext
  initialized,         \* WebGL module: initialized flag
  originalGetContext,  \* WebGL module: captured getContext
  hardBlock,           \* SPOOF_MODE.hardBlock
  ctx2d,               \* the 2D context of canvas "c2d": marker and own wrapper
  glWraps,             \* times applyWebGLSpoofing wrapped the context of "cgl"
  last,                \* the operation that ran last, with what it returned
  activeProfile,       \* WebGL module: the GPU profile selected
  webglPrng,           \* WebGL module: prng
  query,               \* the last getParameter / getExtension call on "cgl"
  obscuraInitialized,  \* canvas page: window.__obscura_initialized
  obscuraConfig,       \* canvas page: window.__obscura_config
  bootRun,             \* executions of the bootstrap script, and what the
                       \* last one called
  seeds,               \* the seeds two generators were created from
  gens,                \* the two generators
  outs,                \* what the last draw returned on each generator
  calls,               \* draws made on each generator
  hashed,              \* the string hash() was called with last
  entropy,             \* the last run of generateSessionSeed(): what it read,
                       \* the bytes it mixed, and the seed it returned
  canvasConfig,        \* canvas module: pixelNoiseRange, alphaNoiseRange
  sessionSeed,         \* canvas module: session seed
  prng,                \* canvas module: session generator
  initCall,            \* the last call of init(): its seed, and whether
                       \* generateSessionSeed ran
  surface,             \* the pixels of the canvas the page reads back
  noise,               \* the read made of the surface as it is, with its buffers
  exported             \* the export made of the surface as it is

hostVars == <<query, obscuraInitialized, obscuraConfig, bootRun>>

regVars == <<proto, originalMethods, isPatched, glProto, initialized,
             originalGetContext, hardBlock, ctx2d, glWraps, last,
             activeProfile, webglPrng, hostVars>>

drawVars == <<seeds, gens, outs, calls, hashed, entropy>>

sessVars == <<canvasConfig, sessionSeed, prng, initCall>>

pixVars == <<sessVars, surface, noise, exported>>

auxVars == <<drawVars, pixVars, hostVars>>

vars == <<regVars, drawVars, pixVars>>

----------------------------------------------------------------------------
(* Bounds *)

MaxGLWraps == 2
MaxDraws == 3
MaxPixels == 2
MaxExports == 2
MaxRuns == 2

----------------------------------------------------------------------------
(* 32-bit words.  A word is kept as its two 16-bit halves, so that every   *)
(* intermediate value of the shifts and sums stays below 2^31.             *)

Base == 65536

\* the element of a one-element set: Only({e(x) : x \in {v}}) is e(v) with v
\* computed once
Only(S) == CHOOSE v \in S : TRUE

Word(hi, lo) == [hi |-> hi, lo |-> lo]
Zero == Word(0, 0)
One == Word(0, 1)

\* bit i of the number a
Bit(a, i) == (a \div 2^i) % 2

\* a ^ b on 4-bit numbers, tabulated
XorNibble ==
  [a \in 0..15, b \in 0..15 |->
     ((Bit(a, 0) + Bit(b, 0)) % 2) + ((Bit(a, 1) + Bit(b, 1)) % 2) * 2
       + ((Bit(a, 2) + Bit(b, 2)) % 2) * 4 + ((Bit(a, 3) + Bit(b, 3)) % 2) * 8]

\* a ^ b on 16-bit numbers, nibble by nibble
XorBits(a, b) ==
  XorNibble[a % 16, b % 16]
    + XorNibble[(a \div 16) % 16, (b \div 16) % 16] * 16
    + XorNibble[(a \div 256) % 16, (b \div 256) % 16] * 256
    + XorNibble[a \div 4096, b \div 4096] * 4096

\* v ^ w
Xor(v, w) == Word(XorBits(v.hi, w.hi), XorBits(v.lo, w.lo))

\* w << k, for 0 < k < 16
Shl(w, k) == Word((((w.hi * 2^k) % Base) + (w.lo \div 2^(16 - k))) % Base,
                  (w.lo * 2^k) % Base)

\* w >>> k, for 16 <= k < 32
Shr(w, k) == Word(0, w.hi \div 2^(k - 16))

----------------------------------------------------------------------------
(* createPRNG: xorshift32 and the draws built on it *)

\* The values a caller can pass as a seed: undefined, NaN, or the number
\* top * 2^32 + hi * 2^16 + lo.
Undefined == [tag |-> "undefined", top |-> 0, hi |-> 0, lo |-> 0]
NaN == [tag |-> "NaN", top |-> 0, hi |-> 0, lo |-> 0]
Num(top, hi, lo) == [tag |-> "number", top |-> top, hi |-> hi, lo |-> lo]

\* !seed || isNaN(seed)
Falsy(v) == v.tag # "number" \/ (v.top = 0 /\ v.hi = 0 /\ v.lo = 0)

\* seed >>> 0
ToUint32(v) == IF v.tag = "number" THEN Word(v.hi, v.lo) ELSE Zero

\* a generator: the closure variable state, and the number of times
\* xorshift32 has run on it
Generator(state) == [state |-> state, steps |-> 0]

\* createPRNG that takes the clock whatever the seed
createPRNG_clock(seed, now) ==
  LET state == ToUint32(now)
  IN Generator(IF state = Zero THEN One ELSE state)

\* createPRNG without "if (state === 0) state = 1"
createPRNG_noRemap(seed, now) ==
  Generator(ToUint32(IF Falsy(seed) THEN now ELSE seed))

\* createPRNG(seed); now is what Date.now() returns if it is asked
createPRNG(seed, now) ==
  LET state == ToUint32(IF Falsy(seed) THEN now ELSE seed)
  IN Generator(IF state = Zero THEN One ELSE state)

\* state ^= state << k
XorShl(state, k) == Xor(state, Shl(state, k))

\* state ^= state >>> k
XorShr(state, k) == Xor(state, Shr(state, k))

\* the generator after a step that left it in state
Stepped(g, state) ==
  [g |-> [state |-> state, steps |-> g.steps + 1], val |-> state]

\* xorshift32(): the generator after the step, and the value returned
xorshift32(g) ==
  Only({ Stepped(g, s3) :
           s3 \in { XorShl(s2, 5) :
             s2 \in { XorShr(s1, 17) :
               s1 \in { XorShl(g.state, 13) } } } })

\* Math.floor(x / 4294967296 * n) for a word x and an integer n; the product
\* is exact in a double for the n used here
FloorScale(x, n) ==
  LET m == IF n < 0 THEN 0 - n ELSE n
      low == x.lo * m
      mid == (x.hi * m) + (low \div Base)
      q == mid \div Base
      exact == (low % Base) = 0 /\ (mid % Base) = 0
  IN IF n >= 0 THEN q ELSE IF exact THEN 0 - q ELSE 0 - q - 1

\* what a draw returns: the generator x.g after it, and the output computed
\* from the value x.val that xorshift32 returned
Draw(x, op, min, span, int) ==
  [g |-> x.g, out |-> [op |-> op, min |-> min, span |-> span, num |-> x.val,
                       int |-> int]]

\* random(): the float val / 2^32, kept as its numerator
random(g) == Draw(xorshift32(g), "random", 0, 1, 0)

\* Math.floor(x.val / 4294967296 * (max - min + 1)) + min
Scaled(x, min, max) ==
  Draw(x, "randomInt", min, max - min + 1, FloorScale(x.val, max - min + 1) + min)

\* randomInt that draws a second time
randomInt_twice(g, min, max) == Scaled(xorshift32(xorshift32(g).g), min, max)

\* randomInt(min, max) for integer min and max
randomInt(g, min, max) == Scaled(xorshift32(g), min, max)

\* randomRange(min, max): the float min + (val / 2^32) * (max - min), kept as
\* the three numbers it is computed from; min and max are in thousandths
randomRange(g, min, max) == Draw(xorshift32(g), "randomRange", min, max - min, 0)

\* the FNV constants of hash(): 2166136261 and 16777619
OFFSET_BASIS == Word(33052, 40389)
FNV_PRIME == Word(256, 403)

\* Math.imul(v, w): the low 32 bits of the product, for w with halves below
\* 2^15
imul(v, w) ==
  LET low == v.lo * w.lo
  IN Word(((v.hi * w.lo) + (v.lo * w.hi) + (low \div Base)) % Base, low % Base)

\* hash with the two statements of the loop body exchanged
fnvStep_multiplyFirst(h, c) == Xor(imul(h, FNV_PRIME), Word(0, c))

\* hash ^= str.charCodeAt(i); hash = Math.imul(hash, FNV_PRIME)
fnvStep(h, c) == imul(Xor(h, Word(0, c)), FNV_PRIME)

\* the for loop of hash() over str[from..to], entered with the value h: the
\* passes over the first half of the range, then the passes over the rest
RECURSIVE hashLoop(_, _, _, _)
hashLoop(h, str, from, to) ==
  IF from > to THEN h
  ELSE IF from = to THEN fnvStep(h, str[from])
  ELSE Only({ hashLoop(half, str, ((from + to) \div 2) + 1, to) :
                half \in { hashLoop(h, str, from, (from + to) \div 2) } })

\* hash(str) on the generator g: the generator after the call, and the value
\* returned
hash(g, str) ==
  Draw([g |-> g, val |-> hashLoop(OFFSET_BASIS, str, 1, Len(str))], "hash", 0, 0, 0)

\* let prng = null
NoPRNG == [state |-> Zero, steps |-> -1]

NoOut == [op |-> "none", min |-> 0, span |-> 0, num |-> Zero, int |-> 0]

\* Seeds handed to createPRNG: 0, 1, 42, 2^32 - 1, 2^32, 2^32 + 1, undefined, NaN
Seeds == {Num(0, 0, 0), Num(0, 0, 1), Num(0, 0, 42), Num(0, 65535, 65535),
          Num(1, 0, 0), Num(1, 0, 1), Undefined, NaN}

\* Readings of Date.now() (milliseconds since 1970, above 2^32)
Clocks == {Num(403, 0, 0), Num(403, 1, 2)}

IntArgs == {<<0, 255>>, <<-5, 5>>, <<0, 3>>}
RangeArgs == {<<-2, 2>>, <<-300, 300>>}

\* strings handed to hash(), as their UTF-16 code units: "test", "", "a",
\* the euro sign
Strings == {<<116, 101, 115, 116>>, <<>>, <<97>>, <<8364>>}

\* two generators are created, each from its own seed at its own time
Create ==
  /\ gens = <<>>
  /\ \E sA \in Seeds, sB \in Seeds, nowA \in Clocks, nowB \in Clocks :
       /\ seeds' = <<sA, sB>>
       /\ gens' = <<createPRNG(sA, nowA), createPRNG(sB, nowB)>>
  /\ outs' = <<NoOut, NoOut>>
  /\ calls' = 0
  /\ hashed' = <<>>
  /\ UNCHANGED <<entropy, regVars, pixVars>>

\* the same draw is made on both generators
Drawn(a, b) ==
  /\ gens' = <<a.g, b.g>>
  /\ outs' = <<a.out, b.out>>
  /\ calls' = calls + 1
  /\ hashed' = <<>>
  /\ UNCHANGED <<seeds, entropy, regVars, pixVars>>

DrawRandom ==
  /\ gens # <<>> /\ calls < MaxDraws
  /\ Drawn(random(gens[1]), random(gens[2]))

DrawRandomInt ==
  /\ gens # <<>> /\ calls < MaxDraws
  /\ \E r \in IntArgs :
       Drawn(randomInt(gens[1], r[1], r[2]), randomInt(gens[2], r[1], r[2]))

DrawRandomRange ==
  /\ gens # <<>> /\ calls < MaxDraws
  /\ \E r \in RangeArgs :
       Drawn(randomRange(gens[1], r[1], r[2]), randomRange(gens[2], r[1], r[2]))


\* the same string is hashed on both generators
Hash ==
  /\ gens # <<>>
  /\ \E str \in Strings :
       /\ gens' = <<hash(gens[1], str).g, hash(gens[2], str).g>>
       /\ outs' = <<hash(gens[1], str).out, hash(gens[2], str).out>>
       /\ hashed' = str
  /\ UNCHANGED <<seeds, calls, entropy, regVars, pixVars>>

\* values of Date.now(): milliseconds since the epoch, above 2^40
Timestamps == Clocks \cup {Num(396, 4660, 22136)}

\* values of Math.random() * 1000000, as the eight bytes a Float64Array holds
\* them in: 0, 500000, 123456.789
RandomScalars == {<<0, 0, 0, 0, 0, 0, 0, 0>>,
                  <<0, 0, 0, 0, 128, 132, 30, 65>>,
                  <<201, 118, 190, 159, 12, 36, 254, 64>>}

\* (timestamp >> (i * 8)) & 0xFF: >> takes its left operand as an int32 and
\* its shift count modulo 32
timestampByte(timestamp, i) ==
  LET word == ToUint32(timestamp)
      count == (i * 8) % 32
  IN IF count < 16 THEN (word.lo \div 2^count) % 256
     ELSE (word.hi \div 2^(count - 16)) % 256

\* generateSessionSeed() with timestamp as Date.now() and randomBytes as the
\* bytes of Math.random() * 1000000: the bytes the two loops mix, and
\* hash >>> 0
generateSessionSeed(timestamp, randomBytes) ==
  LET fed == [i \in 1..8 |-> timestampByte(timestamp, i - 1)] \o randomBytes
      mixed == hashLoop(OFFSET_BASIS, fed, 1, Len(fed))
  IN [op |-> "generateSessionSeed", timestamp |-> timestamp,
      randomBytes |-> randomBytes, fed |-> fed,
      seed |-> Num(0, mixed.hi, mixed.lo)]

NoEntropy == [op |-> "none", timestamp |-> Undefined, randomBytes |-> <<>>,
              fed |-> <<>>, seed |-> Undefined]

GenerateSessionSeed ==
  /\ \E timestamp \in Timestamps, randomBytes \in RandomScalars :
       entropy' = generateSessionSeed(timestamp, randomBytes)
  /\ UNCHANGED <<seeds, gens, outs, calls, hashed, regVars, pixVars>>

----------------------------------------------------------------------------
(* Function references.  A reference is compared by identity: every patch() *)
(* call and every installContextHook() call builds new closures.            *)

Methods == {"getImageData", "toDataURL", "getContext"}

Null == [k |-> "null", m |-> "", id |-> 0]
Native(m) == [k |-> "native", m |-> m, id |-> 0]
Wrapper(m, id) == [k |-> "wrapper", m |-> m, id |-> id]
Hook(id) == [k |-> "hook", m |-> "getContext", id |-> id]

IsWrapper(r) == r.k = "wrapper"
IsHook(r) == r.k = "hook"

\* Every reference the program or the host still holds.
Held == {proto[m] : m \in Methods} \cup {originalMethods[m] : m \in Methods}
          \cup {ctx2d.orig, glProto, originalGetContext}

\* The closures a call builds are new objects: they differ from every held
\* reference.  A new closure is named by the least number no held closure of
\* its kind carries.
Fresh(kind) ==
  CHOOSE n \in 1..(Cardinality(Held) + 1) :
    /\ \A r \in Held : ~(r.k = kind /\ r.id = n)
    /\ \A j \in 1..(n - 1) : \E r \in Held : r.k = kind /\ r.id = j

\* Position of a method in the capture sequence and in the replace sequence
\* of patch(), and in the restore sequence of unpatch().
StepOf(m) == CASE m = "getImageData" -> 1
               [] m = "toDataURL" -> 2
               [] m = "getContext" -> 3

\* A host fault: 0 is none, k > 0 is "the k-th host access of the call throws".
PatchFaults == 0..6
UnpatchFaults == 0..3
InitFaults == 0..2
DisableFaults == 0..1

Reached(f, step) == f = 0 \/ f > step

----------------------------------------------------------------------------
(* Canvas module: patch / unpatch *)

\* originalMethods after the three capture assignments of patch()
patchCapture(om, pr, f) ==
  [m \in Methods |-> IF Reached(f, StepOf(m)) THEN pr[m] ELSE om[m]]

\* the prototypes after the three replacement assignments of patch()
patchReplace(pr, id, f) ==
  [m \in Methods |-> IF Reached(f, 3 + StepOf(m)) THEN Wrapper(m, id) ELSE pr[m]]

\* the prototypes after the three restore assignments of unpatch()
unpatchRestore(pr, om, f) ==
  [m \in Methods |-> IF Reached(f, StepOf(m)) THEN om[m] ELSE pr[m]]

Pristine == [proto |-> [m \in Methods |-> Native(m)],
             originalMethods |-> [m \in Methods |-> Null],
             isPatched |-> FALSE, glProto |-> Native("getContext"),
             initialized |-> FALSE]

Snapshot == [proto |-> proto, originalMethods |-> originalMethods,
             isPatched |-> isPatched, glProto |-> glProto,
             initialized |-> initialized]

Nothing == [tag |-> "nothing", fn |-> Null, this |-> "", args |-> <<>>]

\* what a call made through a host method did (NoCall for the other operations)
NoCall == [via |-> "none", m |-> "", this |-> "", args |-> <<>>,
           threw |-> FALSE, hb |-> FALSE, captured |-> Null,
           result |-> [kind |-> "none", val |-> Nothing],
           fallbacks |-> 0, attempts |-> 0]

\* An operation is recorded with what it returned and the state it started from.
Record(op, ret, f) ==
  last' = [op |-> op, ret |-> ret, fault |-> f, pre |-> Snapshot,
           call |-> NoCall]

patch(f) ==
  IF isPatched
  THEN /\ f = 0
       /\ Record("patch", TRUE, 0)
       /\ UNCHANGED <<proto, originalMethods, isPatched>>
  ELSE /\ originalMethods' = patchCapture(originalMethods, proto, f)
       /\ proto' = patchReplace(proto, Fresh("wrapper"), f)
       /\ isPatched' = (f = 0)
       /\ Record("patch", f = 0, f)

unpatch(f) ==
  IF ~isPatched
  THEN /\ f = 0
       /\ Record("unpatch", TRUE, 0)
       /\ UNCHANGED <<proto, originalMethods, isPatched>>
  ELSE /\ proto' = unpatchRestore(proto, originalMethods, f)
       /\ isPatched' = IF f = 0 THEN FALSE ELSE isPatched
       /\ Record("unpatch", f = 0, f)
       /\ UNCHANGED originalMethods

Patch ==
  /\ \E f \in PatchFaults : patch(f)
  /\ UNCHANGED <<auxVars, glProto, initialized, originalGetContext, activeProfile, webglPrng, hardBlock, ctx2d, glWraps>>

Unpatch ==
  /\ \E f \in UnpatchFaults : unpatch(f)
  /\ UNCHANGED <<auxVars, glProto, initialized, originalGetContext, activeProfile, webglPrng, hardBlock, ctx2d, glWraps>>

----------------------------------------------------------------------------
(* WebGL module: initialize / disable *)

\* installContextHook(): capture (step 1), replace (step 2)
installContextHook(f) ==
  /\ originalGetContext' = IF Reached(f, 1) THEN glProto ELSE originalGetContext
  /\ glProto' = IF Reached(f, 2) THEN Hook(Fresh("hook")) ELSE glProto

\* ProfileManager.profiles: the fields the replacements read
profiles ==
  << [name |-> "nvidia_rtx_3080", vendor |-> "WebKit", renderer |-> "WebKit WebGL",
      unmaskedVendor |-> "Google Inc. (NVIDIA)",
      unmaskedRenderer |-> "ANGLE (NVIDIA, NVIDIA GeForce RTX 3080 Direct3D11 vs_5_0 ps_5_0, D3D11)",
      supportsWebGL2 |-> TRUE],
     [name |-> "amd_radeon_rx_6800", vendor |-> "WebKit", renderer |-> "WebKit WebGL",
      unmaskedVendor |-> "Google Inc. (AMD)",
      unmaskedRenderer |-> "ANGLE (AMD, AMD Radeon RX 6800 XT Direct3D11 vs_5_0 ps_5_0, D3D11)",
      supportsWebGL2 |-> TRUE] >>

\* let activeProfile = null
NoProfile == [name |-> "null", vendor |-> "", renderer |-> "", unmaskedVendor |-> "",
              unmaskedRenderer |-> "", supportsWebGL2 |-> FALSE]

\* new SessionPRNG(seed): the generator of the session, created as createPRNG
\* creates one
SessionPRNG(seed, now) == createPRNG(seed, now)

\* ProfileManager.selectProfile(prng): the profile at
\* Math.floor(prng.random() * profiles.length), and the generator after the
\* draw
selectProfile(g) ==
  LET drawn == random(g)
  IN [g |-> drawn.g, profile |-> profiles[FloorScale(drawn.out.num, Len(profiles)) + 1]]

\* values of config.get('seed'): none, 42, 12345
ConfigSeeds == {Undefined, Num(0, 0, 42), Num(0, 0, 12345)}

\* initialize(userConfig) with seed as config.get('seed')
initialize(f, seed, now) ==
  IF initialized
  THEN /\ f = 0
       /\ Record("initialize", TRUE, 0)
       /\ UNCHANGED <<glProto, originalGetContext, initialized, activeProfile, webglPrng>>
  ELSE /\ LET selected == selectProfile(SessionPRNG(seed, now))
          IN /\ webglPrng' = selected.g
             /\ activeProfile' = selected.profile
       /\ installContextHook(f)
       /\ initialized' = (f = 0)
       /\ Record("initialize", f = 0, f)

disable(f) ==
  IF ~initialized
  THEN /\ f = 0
       /\ Record("disable", FALSE, 0)
       /\ UNCHANGED <<glProto, originalGetContext, initialized, activeProfile, webglPrng>>
  ELSE /\ glProto' = IF originalGetContext # Null /\ Reached(f, 1)
                     THEN originalGetContext ELSE glProto
       /\ initialized' = IF f = 0 THEN FALSE ELSE initialized
       /\ Record("disable", f = 0, f)
       /\ UNCHANGED <<originalGetContext, activeProfile, webglPrng>>

Initialize ==
  /\ \E f \in InitFaults, seed \in ConfigSeeds, now \in Clocks : initialize(f, seed, now)
  /\ UNCHANGED <<auxVars, proto, originalMethods, isPatched, hardBlock, ctx2d, glWraps>>

Disable ==
  /\ \E f \in DisableFaults : disable(f)
  /\ UNCHANGED <<auxVars, proto, originalMethods, isPatched, hardBlock, ctx2d, glWraps>>

----------------------------------------------------------------------------
(* Calls made by the page through the host methods *)

\* What applying the function fn to (this, args) produces: its return value,
\* or the exception it raises.  Host functions are not interpreted.
Invoke(fn, this, args) == [tag |-> "invoke", fn |-> fn, this |-> this, args |-> args]

\* What the spoofing code of the replacement fn returns when it completes.
Spoofed(fn, this, args) == [tag |-> "spoofed", fn |-> fn, this |-> this, args |-> args]

\* The error a replacement raises to its caller.
Failure(fn, this, args) == [tag |-> "error", fn |-> fn, this |-> this, args |-> args]

\* tryOrFallback whose fallback passes the argument array as one argument
\* (nativeFn.call(context, args))
tryOrFallback_call(nativeFn, spoof, wrapper, context, args, hb) ==
  IF ~spoof.threw
  THEN [result |-> [kind |-> "return", val |-> spoof.val],
        fallbacks |-> 0, attempts |-> 1]
  ELSE IF hb
       THEN [result |-> [kind |-> "throw", val |-> Failure(wrapper, context, args)],
             fallbacks |-> 0, attempts |-> 1]
       ELSE [result |-> [kind |-> "return", val |-> Invoke(nativeFn, context, <<args>>)],
             fallbacks |-> 1, attempts |-> 1]

\* tryOrFallback that does not consult SPOOF_MODE.hardBlock
tryOrFallback_noHardBlock(nativeFn, spoof, wrapper, context, args, hb) ==
  IF ~spoof.threw
  THEN [result |-> [kind |-> "return", val |-> spoof.val],
        fallbacks |-> 0, attempts |-> 1]
  ELSE [result |-> [kind |-> "return", val |-> Invoke(nativeFn, context, args)],
        fallbacks |-> 1, attempts |-> 1]

\* tryOrFallback(nativeFn, spoofFn, context, args, moduleName); spoof is what
\* spoofFn.apply(context, args) did: [threw, val].
tryOrFallback(nativeFn, spoof, wrapper, context, args, hb) ==
  IF ~spoof.threw
  THEN [result |-> [kind |-> "return", val |-> spoof.val],
        fallbacks |-> 0, attempts |-> 1]
  ELSE IF hb
       THEN [result |-> [kind |-> "throw", val |-> Failure(wrapper, context, args)],
             fallbacks |-> 0, attempts |-> 1]
       ELSE [result |-> [kind |-> "return", val |-> Invoke(nativeFn, context, args)],
             fallbacks |-> 1, attempts |-> 1]

\* A replacement of the WebGL module: its body runs with no try/catch around it.
unguarded(spoof, wrapper, context, args) ==
  IF ~spoof.threw
  THEN [result |-> [kind |-> "return", val |-> spoof.val],
        fallbacks |-> 0, attempts |-> 1]
  ELSE [result |-> [kind |-> "throw", val |-> Failure(wrapper, context, args)],
        fallbacks |-> 0, attempts |-> 1]

CallRecord(via, m, this, args, threw, captured, out) ==
  [via |-> via, m |-> m, this |-> this, args |-> args, threw |-> threw,
   hb |-> hardBlock, captured |-> captured, result |-> out.result,
   fallbacks |-> out.fallbacks, attempts |-> out.attempts]

\* The call of a host function that nothing replaced.
nativeCall(fn, m, this, args) ==
  CallRecord("native", m, this, args, FALSE, fn,
             [result |-> [kind |-> "return", val |-> Invoke(fn, this, args)],
              fallbacks |-> 0, attempts |-> 0])

\* The prototype wrappers installed by patch(): originalMethods is read when
\* the wrapper runs, not when it was installed.
protoWrapper(w, m, this, args, threw) ==
  CallRecord("tryOrFallback", m, this, args, threw, originalMethods[m],
             tryOrFallback(originalMethods[m],
                           [threw |-> threw, val |-> Spoofed(w, this, args)],
                           w, this, args, hardBlock))

CtxWrapper == [k |-> "ctxwrapper", m |-> "getImageData", id |-> 0]

\* ctx.getImageData installed by spoofGetContext: the original is the value
\* captured when the context was processed.
ctxWrapper(this, args, threw) ==
  CallRecord("tryOrFallback", "getImageData", this, args, threw, ctx2d.orig,
             tryOrFallback(ctx2d.orig,
                           [threw |-> threw, val |-> Spoofed(CtxWrapper, this, args)],
                           CtxWrapper, this, args, hardBlock))

\* The getContext hook of installContextHook().
contextHook(h, this, args, threw) ==
  CallRecord("unguarded", "getContext", this, args, threw, originalGetContext,
             unguarded([threw |-> threw, val |-> Spoofed(h, this, args)],
                       h, this, args))

GLMethods == {"getParameter", "getExtension", "readPixels", "toDataURL", "toBlob"}

\* The function of a WebGL context (or its canvas) after n applications of
\* applyWebGLSpoofing: each application captures the one before it.
GLRef(m, n) == IF n = 0 THEN [k |-> "native", m |-> m, id |-> 0]
               ELSE [k |-> "glwrapper", m |-> m, id |-> n]

\* gl.getParameter, gl.getExtension, gl.readPixels, canvas.toDataURL and
\* canvas.toBlob as replaced by applyWebGLSpoofing.
glWrapper(m, this, args, threw) ==
  CallRecord("unguarded", m, this, args, threw, GLRef(m, glWraps - 1),
             unguarded([threw |-> threw,
                        val |-> Spoofed(GLRef(m, glWraps), this, args)],
                       GLRef(m, glWraps), this, args))

RecordCall(c) ==
  last' = [op |-> "call", ret |-> TRUE, fault |-> 0, pre |-> Pristine,
           call |-> c]

CallArgs(m) == CASE m = "getImageData" -> {<<0, 0, 4, 4>>, <<1, 1, 2, 2>>}
                 [] m = "toDataURL" -> {<<"image/png">>}
                 [] m = "toBlob" -> {<<"image/png">>}
                 [] m = "getContext" -> {<<"2d">>, <<"webgl">>}
                 [] m = "getParameter" -> {<<37446>>}
                 [] m = "getExtension" -> {<<"WEBGL_debug_renderer_info">>}
                 [] m = "readPixels" -> {<<0, 0, 1, 1>>}

\* canvas.toDataURL() / ctx.getImageData() found on the prototype
CallProto ==
  /\ \E m \in {"getImageData", "toDataURL"}, threw \in BOOLEAN :
       \E args \in CallArgs(m) :
         /\ threw => IsWrapper(proto[m])
         /\ RecordCall(IF IsWrapper(proto[m])
                       THEN protoWrapper(proto[m], m, "c2d", args, threw)
                       ELSE nativeCall(proto[m], m, "c2d", args))
  /\ UNCHANGED <<auxVars, proto, originalMethods, isPatched, glProto, initialized,
                 originalGetContext, activeProfile, webglPrng, hardBlock, ctx2d, glWraps>>

\* ctx.getImageData() on the processed 2D context of canvas "c2d"
CallCtxGetImageData ==
  /\ ctx2d.processed
  /\ \E args \in CallArgs("getImageData"), threw \in BOOLEAN :
       RecordCall(ctxWrapper("c2d", args, threw))
  /\ UNCHANGED <<auxVars, proto, originalMethods, isPatched, glProto, initialized,
                 originalGetContext, activeProfile, webglPrng, hardBlock, ctx2d, glWraps>>

\* canvas "c2d" .getContext('2d') on the canvas module's page: spoofGetContext
\* marks and wraps the context once; a spoof path that throws (the host
\* returned no context) changes nothing.
GetContext2D ==
  /\ \E threw \in BOOLEAN :
       LET r == proto["getContext"]
           wraps == IsWrapper(r) /\ ~threw /\ ~ctx2d.processed
       IN /\ threw => IsWrapper(r)
          /\ RecordCall(IF IsWrapper(r)
                        THEN protoWrapper(r, "getContext", "c2d", <<"2d">>, threw)
                        ELSE nativeCall(r, "getContext", "c2d", <<"2d">>))
          /\ ctx2d' = IF wraps
                      THEN [processed |-> TRUE, orig |-> proto["getImageData"]]
                      ELSE ctx2d
  /\ UNCHANGED <<auxVars, proto, originalMethods, isPatched, glProto, initialized,
                 originalGetContext, activeProfile, webglPrng, hardBlock, glWraps>>

\* canvas "cgl" .getContext('webgl') on the WebGL module's page: every pass
\* through the hook applies applyWebGLSpoofing to the context again
\* (protection enabled in the configuration); a hook that throws does so
\* before it replaces anything.
GetContextGL ==
  /\ \E threw \in BOOLEAN :
       LET r == glProto
           wraps == IsHook(r) /\ ~threw
       IN /\ threw => IsHook(r)
          /\ wraps => glWraps < MaxGLWraps
          /\ RecordCall(IF IsHook(r)
                        THEN contextHook(r, "cgl", <<"webgl">>, threw)
                        ELSE nativeCall(r, "getContext", "cgl", <<"webgl">>))
          /\ glWraps' = IF wraps THEN glWraps + 1 ELSE glWraps
  /\ UNCHANGED <<auxVars, proto, originalMethods, isPatched, glProto, initialized,
                 originalGetContext, activeProfile, webglPrng, hardBlock, ctx2d>>

\* a call of one of the functions applyWebGLSpoofing replaced on "cgl"
CallGL ==
  /\ glWraps > 0
  /\ \E m \in GLMethods, threw \in BOOLEAN :
       \E args \in CallArgs(m) :
         RecordCall(glWrapper(m, "cgl", args, threw))
  /\ UNCHANGED <<auxVars, proto, originalMethods, isPatched, glProto, initialized,
                 originalGetContext, activeProfile, webglPrng, hardBlock, ctx2d, glWraps>>

\* the tokens getParameter compares pname with
UNMASKED_VENDOR_WEBGL == 37445
UNMASKED_RENDERER_WEBGL == 37446
VENDOR == 7936
RENDERER == 7937

\* tokens the page asks for: the four above, VERSION, MAX_TEXTURE_SIZE
Tokens == {37445, 37446, 7936, 7937, 7938, 3379}

\* extension names the page asks for
ExtensionNames == {"WEBGL_debug_renderer_info", "OES_texture_float", "WEBGL_lose_context"}

\* what a replacement returned: a string of the profile, null, or what the
\* real function returns for the call made of it; real counts the calls of
\* the real function
Answer(kind, str, call, real) == [kind |-> kind, str |-> str, call |-> call, real |-> real]

\* getParameter that answers the unmasked vendor token with the unmasked
\* renderer and the unmasked renderer token with the unmasked vendor
getParameter_swapped(n, this, pname) ==
  IF n = 0 THEN Answer("real", "", Invoke(GLRef("getParameter", 0), this, <<pname>>), 1)
  ELSE IF pname = UNMASKED_VENDOR_WEBGL THEN Answer("string", activeProfile.unmaskedRenderer, Nothing, 0)
  ELSE IF pname = UNMASKED_RENDERER_WEBGL THEN Answer("string", activeProfile.unmaskedVendor, Nothing, 0)
  ELSE IF pname = VENDOR THEN Answer("string", activeProfile.vendor, Nothing, 0)
  ELSE IF pname = RENDERER THEN Answer("string", activeProfile.renderer, Nothing, 0)
  ELSE Answer("real", "", Invoke(GLRef("getParameter", 0), this, <<pname>>), 1)

\* gl.getParameter(pname) on a context that applyWebGLSpoofing wrapped n
\* times: through[k] is what the k-th replacement returns, the 0-th being
\* the real getParameter
getParameter(n, this, pname) ==
  LET through[k \in 0..n] ==
        IF k = 0 THEN Answer("real", "", Invoke(GLRef("getParameter", 0), this, <<pname>>), 1)
        ELSE IF pname = UNMASKED_VENDOR_WEBGL
             THEN Answer("string", activeProfile.unmaskedVendor, Nothing, 0)
        ELSE IF pname = UNMASKED_RENDERER_WEBGL
             THEN Answer("string", activeProfile.unmaskedRenderer, Nothing, 0)
        ELSE IF pname = VENDOR THEN Answer("string", activeProfile.vendor, Nothing, 0)
        ELSE IF pname = RENDERER THEN Answer("string", activeProfile.renderer, Nothing, 0)
        ELSE through[k - 1]
  IN through[n]

\* getExtension that asks the real getExtension before it answers
getExtension_asksFirst(n, this, name) ==
  IF n > 0 /\ name = "WEBGL_debug_renderer_info"
  THEN Answer("null", "", Nothing, 1)
  ELSE Answer("real", "", Invoke(GLRef("getExtension", 0), this, <<name>>), 1)

\* gl.getExtension(name) on a context that applyWebGLSpoofing wrapped n times
getExtension(n, this, name) ==
  LET through[k \in 0..n] ==
        IF k = 0 THEN Answer("real", "", Invoke(GLRef("getExtension", 0), this, <<name>>), 1)
        ELSE IF name = "WEBGL_debug_renderer_info" THEN Answer("null", "", Nothing, 0)
        ELSE through[k - 1]
  IN through[n]

NoQuery == [op |-> "none", pname |-> 0, name |-> "", wraps |-> 0,
            answer |-> Answer("none", "", Nothing, 0)]

\* gl.getParameter(pname) on the context of "cgl"
GetParameter ==
  /\ glWraps > 0
  /\ \E pname \in Tokens :
       query' = [op |-> "getParameter", pname |-> pname, name |-> "", wraps |-> glWraps,
                 answer |-> getParameter(glWraps, "cgl", pname)]
  /\ UNCHANGED <<drawVars, pixVars, obscuraInitialized, obscuraConfig, bootRun,
                 proto, originalMethods, isPatched, glProto, initialized,
                 originalGetContext, activeProfile, webglPrng, hardBlock, ctx2d, glWraps, last>>

\* gl.getExtension(name) on the context of "cgl"
GetExtension ==
  /\ glWraps > 0
  /\ \E name \in ExtensionNames :
       query' = [op |-> "getExtension", pname |-> 0, name |-> name, wraps |-> glWraps,
                 answer |-> getExtension(glWraps, "cgl", name)]
  /\ UNCHANGED <<drawVars, pixVars, obscuraInitialized, obscuraConfig, bootRun,
                 proto, originalMethods, isPatched, glProto, initialized,
                 originalGetContext, activeProfile, webglPrng, hardBlock, ctx2d, glWraps, last>>

\* SPOOF_MODE is a mutable object handed out by getStatus(): the page can set
\* SPOOF_MODE.hardBlock.
SetHardBlock ==
  /\ hardBlock' = ~hardBlock
  /\ UNCHANGED <<auxVars, proto, originalMethods, isPatched, glProto, initialized,
                 originalGetContext, activeProfile, webglPrng, ctx2d, glWraps, last>>

----------------------------------------------------------------------------
(* Canvas module: init, and the pixel noise of spoofGetImageData *)

Add(v, w) ==
  LET lo == v.lo + w.lo
  IN Word((v.hi + w.hi + (lo \div Base)) % Base, lo % Base)

\* 2^32 - w
Neg(w) == IF w.lo = 0 THEN Word((Base - w.hi) % Base, 0)
          ELSE Word(Base - 1 - w.hi, Base - w.lo)

Sub(v, w) == Add(v, Neg(w))

\* sessionSeed ^ contentHash: an int32, as the number createPRNG receives
XorNumber(n, h) ==
  LET w == Xor(ToUint32(n), h)
  IN Num(IF w.hi >= 32768 THEN -1 ELSE 0, w.hi, w.lo)

\* decimal digits of n >= 0 as character codes
Digits(n) ==
  LET digits[k \in 0..n] ==
        IF k < 10 THEN <<48 + k>> ELSE digits[k \div 10] \o <<48 + (k % 10)>>
  IN digits[n]

\* `${n}`
Str(n) == IF n < 0 THEN <<45>> \o Digits(0 - n) ELSE Digits(n)

\* the default canvasConfig
DefaultConfig == [pixelNoiseRange |-> 5, alphaNoiseRange |-> 3]

\* option objects handed to init(): none, one key, both keys
Options == {[k \in {} |-> 0],
            [pixelNoiseRange |-> 10, alphaNoiseRange |-> 5],
            [pixelNoiseRange |-> 300, alphaNoiseRange |-> 300],
            [alphaNoiseRange |-> -5]}

\* seeds handed to init(): null, 42, 0, and 0x23d3b059, which is what hash()
\* returns for the fingerprint of a canvas of one black pixel
InitSeeds == {Undefined, Num(0, 0, 42), Num(0, 0, 0), Num(0, 9171, 45145)}

\* results of generateSessionSeed(): uint32 values
GeneratedSeeds == {Num(0, 4660, 22136)}

\* Object.assign(canvasConfig, options)
assign(config, options) ==
  [k \in DOMAIN config |-> IF k \in DOMAIN options THEN options[k] ELSE config[k]]

NoInit == [op |-> "none", seed |-> Undefined, generated |-> FALSE]

\* init(seed, options); generated is what generateSessionSeed() returns if
\* it is called, now what Date.now() returns if it is asked
init(seed, options, generated, now) ==
  /\ sessionSeed' = IF Falsy(seed) THEN generated ELSE seed
  /\ prng' = createPRNG(sessionSeed', now)
  /\ canvasConfig' = assign(canvasConfig, options)
  /\ initCall' = [op |-> "init", seed |-> seed, generated |-> Falsy(seed)]

\* Math.max(0, Math.min(255, v)) on a colour channel
clampChannel(v) == IF v > 255 THEN 255 ELSE IF v < 0 THEN 0 ELSE v

\* a write of the integer v into ImageData.data, a Uint8ClampedArray
storeImageData(v) == IF v > 255 THEN 255 ELSE IF v < 0 THEN 0 ELSE v

\* the pass with the alpha noise applied to every pixel, opaque or not
noisePixel_everyAlpha(data, i, g, pixelNoiseRange, alphaNoiseRange) ==
  LET rNoise == randomInt(g, 0 - pixelNoiseRange, pixelNoiseRange)
      gNoise == randomInt(rNoise.g, 0 - pixelNoiseRange, pixelNoiseRange)
      bNoise == randomInt(gNoise.g, 0 - pixelNoiseRange, pixelNoiseRange)
      aNoise == randomInt(bNoise.g, 0, alphaNoiseRange)
  IN [assigned |-> << clampChannel(data[i] + rNoise.out.int),
                      clampChannel(data[i + 1] + gNoise.out.int),
                      clampChannel(data[i + 2] + bNoise.out.int),
                      255 - aNoise.out.int >>,
      g |-> aNoise.g]

\* one pass of the for loop of spoofGetImageData, on the pixel at i (i counts
\* from 1 here): the four values the pass leaves in the pixel, and the
\* generator after it; an alpha that is not 255 is not assigned
noisePixel(data, i, g, pixelNoiseRange, alphaNoiseRange) ==
  LET rNoise == randomInt(g, 0 - pixelNoiseRange, pixelNoiseRange)
      gNoise == randomInt(rNoise.g, 0 - pixelNoiseRange, pixelNoiseRange)
      bNoise == randomInt(gNoise.g, 0 - pixelNoiseRange, pixelNoiseRange)
      opaque == data[i + 3] = 255
      aNoise == randomInt(bNoise.g, 0, alphaNoiseRange)
  IN [assigned |-> << clampChannel(data[i] + rNoise.out.int),
                      clampChannel(data[i + 1] + gNoise.out.int),
                      clampChannel(data[i + 2] + bNoise.out.int),
                      IF opaque THEN 255 - aNoise.out.int ELSE data[i + 3] >>,
      g |-> IF opaque THEN aNoise.g ELSE bNoise.g]

\* the for loop of spoofGetImageData: after[k] is the values left in the
\* first k pixels, in buffer order, and the generator after them
noiseLoop(data, g, pixelNoiseRange, alphaNoiseRange) ==
  LET after[k \in 0..(Len(data) \div 4)] ==
        IF k = 0 THEN [assigned |-> <<>>, g |-> g]
        ELSE Only({ Only({ [assigned |-> before.assigned \o pass.assigned,
                             g |-> pass.g] :
                             pass \in { noisePixel(data, 4 * k - 3, before.g,
                                                   pixelNoiseRange, alphaNoiseRange) } }) :
                      before \in { after[k - 1] } })
  IN after[Len(data) \div 4].assigned

\* "undefined"
undefined == <<117, 110, 100, 101, 102, 105, 110, 101, 100>>

\* `${data[i]}` (i counts from 0, as in the script)
Sample(data, i) == IF i < Len(data) THEN Str(data[i + 1]) ELSE undefined

\* `${width}x${height}:${data[0]}${data[100]}${data[1000]}`
contentFingerprint(width, height, data) ==
  Str(width) \o <<120>> \o Str(height) \o <<58>>
    \o Sample(data, 0) \o Sample(data, 100) \o Sample(data, 1000)

\* prng.hash(contentFingerprint)
contentHash(width, height, data) ==
  Only({ hash(prng, str).out.num : str \in { contentFingerprint(width, height, data) } })

\* the noise of spoofGetImageData on the buffer data, with contentHash as
\* prng.hash returned it
contentNoise(contentHashed, width, height, data, now) ==
  LET contentPRNG == createPRNG(XorNumber(sessionSeed, contentHashed), now)
      assigned == noiseLoop(data, contentPRNG,
                            canvasConfig.pixelNoiseRange,
                            canvasConfig.alphaNoiseRange)
  IN [op |-> "getImageData", kind |-> "Uint8ClampedArray", components |-> 4,
      args |-> <<width, height>>, id |-> <<>>,
      layers |-> 1, threw |-> FALSE,
      before |-> data, offsets |-> <<>>, assigned |-> assigned,
      after |-> [j \in 1..Len(data) |-> storeImageData(assigned[j])]]

\* spoofGetImageData with a prng.hash that steps the generator
spoofGetImageData_steppingHash(g, width, height, data, now) ==
  Only({ [g |-> xorshift32(fp.g).g,
          out |-> contentNoise(fp.out.num, width, height, data, now)] :
          fp \in { hash(g, contentFingerprint(width, height, data)) } })

\* spoofGetImageData on the buffer the original call returned, for a canvas
\* of the given width and height, in the session whose generator is g: the
\* generator prng.hash leaves, and the image data returned
spoofGetImageData(g, width, height, data, now) ==
  Only({ [g |-> fp.g,
          out |-> contentNoise(fp.out.num, width, height, data, now)] :
          fp \in { hash(g, contentFingerprint(width, height, data)) } })

\* the five draws of applyCanvasTransform, in the order they are made:
\* scaleX, scaleY, translateX, translateY, rotate (in thousandths)
TransformArgs == << <<-2, 2>>, <<-2, 2>>, <<-300, 300>>, <<-300, 300>>, <<-2, 2>> >>

\* a call made of the temporary context or canvas: its arguments are draws,
\* each with plus added to it
CtxCall(op, args, plus) == [op |-> op, args |-> args, plus |-> plus]

\* the five draws of applyCanvasTransform from the generator g
transformDraws(g) ==
  LET after[k \in 0..Len(TransformArgs)] ==
        IF k = 0 THEN [values |-> <<>>, g |-> g]
        ELSE Only({ Only({ [values |-> Append(before.values, draw.out), g |-> draw.g] :
                             draw \in { randomRange(before.g, TransformArgs[k][1],
                                                    TransformArgs[k][2]) } }) :
                      before \in { after[k - 1] } })
  IN after[Len(TransformArgs)]

\* applyCanvasTransform that draws from a copy of the generator
applyCanvasTransform_copy(g) ==
  Only({ [values |-> drawn.values, g |-> g,
           calls |-> << CtxCall("translate", <<drawn.values[3], drawn.values[4]>>, 0),
                        CtxCall("rotate", <<drawn.values[5]>>, 0),
                        CtxCall("scale", <<drawn.values[1], drawn.values[2]>>, 1) >>] :
           drawn \in { transformDraws(g) } })

\* applyCanvasTransform that applies scale, then rotate, then translate
applyCanvasTransform_scaleFirst(g) ==
  Only({ [values |-> drawn.values, g |-> drawn.g,
           calls |-> << CtxCall("scale", <<drawn.values[1], drawn.values[2]>>, 1),
                        CtxCall("rotate", <<drawn.values[5]>>, 0),
                        CtxCall("translate", <<drawn.values[3], drawn.values[4]>>, 0) >>] :
           drawn \in { transformDraws(g) } })

\* applyCanvasTransform(ctx, prng): the five values drawn, the generator
\* after the draws, and the calls made of ctx
applyCanvasTransform(g) ==
  Only({ [values |-> drawn.values, g |-> drawn.g,
           calls |-> << CtxCall("translate", <<drawn.values[3], drawn.values[4]>>, 0),
                        CtxCall("rotate", <<drawn.values[5]>>, 0),
                        CtxCall("scale", <<drawn.values[1], drawn.values[2]>>, 1) >>] :
           drawn \in { transformDraws(g) } })

\* what the original toDataURL returns for a canvas: a function of the
\* pixels drawn on it and of the transform they were drawn under; a canvas
\* with no pixel leaves the temporary canvas empty under any transform
serialize(content, transform) ==
  [content |-> content, transform |-> IF content = <<>> THEN <<>> ELSE transform]

\* host exceptions inside spoofToDataURL: 0 is none; 1, the host returns no
\* 2D context for the temporary canvas and tempCtx.save() throws; 2,
\* tempCtx.drawImage throws (the canvas has a zero dimension)
ExportFaults == 0..2

\* spoofToDataURL on a canvas holding content: the generator it leaves, the
\* calls it made, and what it returns unless it threw
spoofToDataURL(content, g, fault) ==
  IF fault = 1
  THEN [g |-> g, threw |-> TRUE, transform |-> <<>>, calls |-> <<>>,
        output |-> serialize(<<>>, <<>>)]
  ELSE Only({ IF fault = 2
              THEN [g |-> drawn.g, threw |-> TRUE, transform |-> drawn.values,
                    calls |-> <<CtxCall("save", <<>>, 0)>> \o drawn.calls
                                \o <<CtxCall("drawImage", <<>>, 0)>>,
                    output |-> serialize(<<>>, <<>>)]
              ELSE [g |-> drawn.g, threw |-> FALSE, transform |-> drawn.values,
                    calls |-> <<CtxCall("save", <<>>, 0)>> \o drawn.calls
                                \o << CtxCall("drawImage", <<>>, 0),
                                      CtxCall("restore", <<>>, 0),
                                      CtxCall("toDataURL", <<>>, 0) >>,
                    output |-> serialize(content, drawn.values)] :
              drawn \in { applyCanvasTransform(g) } })

\* what tryOrFallback makes of the spoof path of toDataURL
exportOutcome(spoof, hb) ==
  tryOrFallback(Native("toDataURL"),
                [threw |-> spoof.threw,
                 val |-> Spoofed(Wrapper("toDataURL", 1), "c2d", <<>>)],
                Wrapper("toDataURL", 1), "c2d", <<>>, hb)

\* canvas.toDataURL() through the replacement patch() installs; n numbers
\* the call
wrappedToDataURL(content, g, n, fault, hb) ==
  Only({ Only({ [g |-> spoof.g,
                 out |-> [op |-> "toDataURL", n |-> n,
                          result |-> IF call.result.kind = "throw" THEN "throw"
                                     ELSE IF call.fallbacks = 1 THEN "native"
                                     ELSE "spoofed",
                          transform |-> spoof.transform, calls |-> spoof.calls,
                          output |-> IF call.result.kind = "throw"
                                     THEN serialize(<<>>, <<>>)
                                     ELSE IF call.fallbacks = 1
                                     THEN serialize(content, <<>>)
                                     ELSE spoof.output]] :
                 call \in { exportOutcome(spoof, hb) } }) :
         spoof \in { spoofToDataURL(content, g, fault) } })

----------------------------------------------------------------------------
(* WebGL module: the noise of the readPixels replacement *)

\* hash = ((hash << 5) - hash) + c; hash = hash & hash
hashStep(h, c) == Add(Sub(Shl(h, 5), h), Word(0, c))

\* the hash loop of pixelNoise over the characters of str, from hash 0
hashString(str) ==
  LET acc[n \in 0..Len(str)] ==
        IF n = 0 THEN Zero ELSE Only({ hashStep(h, str[n]) : h \in {acc[n - 1]} })
  IN acc[Len(str)]

\* hash % 7 for the int32 the word stands for: the sign follows the dividend
Rem7(w) ==
  IF w.hi < 32768
  THEN (((w.hi % 7) * (Base % 7)) + (w.lo % 7)) % 7
  ELSE LET m == Neg(w) IN 0 - ((((m.hi % 7) * (Base % 7)) + (m.lo % 7)) % 7)

\* pixelNoise(index) inside readPixels(x, y, width, height, ...)
pixelNoise(x, y, width, height, index) ==
  Rem7(hashString(Str(x) \o <<44>> \o Str(y) \o <<44>> \o Str(width) \o <<44>>
                    \o Str(height) \o <<44>> \o Str(index))) - 3

\* readPixels without Math.max / Math.min
clampPixel_none(v) == v

\* Math.max(0, Math.min(255, v)) on a readPixels element
clampPixel(v) == IF v > 255 THEN 255 ELSE IF v < 0 THEN 0 ELSE v

\* a write of the integer v into the caller's typed array
storePixels(kind, v) == IF kind = "Uint8Array" THEN v % 256 ELSE v

\* the elements readPixels modifies: R, G and B of every pixel (j counts
\* from 1 here)
Noised(j, components) == components = 3 \/ ((j - 1) % components) < 3

\* the two loops of the readPixels replacement: noise for the elements they
\* visit
readPixelsOffsets(pixels, x, y, width, height, components) ==
  [j \in 1..Len(pixels) |->
     IF Noised(j, components) THEN pixelNoise(x, y, width, height, j - 1) ELSE 0]

\* the two loops of the readPixels replacement: the values assigned
readPixelsNoise(pixels, x, y, width, height, components) ==
  [j \in 1..Len(pixels) |->
     IF Noised(j, components)
     THEN clampPixel(pixels[j] + pixelNoise(x, y, width, height, j - 1))
     ELSE pixels[j]]

readPixels(pixels, kind, x, y, width, height, components) ==
  LET assigned == readPixelsNoise(pixels, x, y, width, height, components)
  IN [op |-> "readPixels", kind |-> kind, components |-> components,
      args |-> <<x, y, width, height>>, id |-> <<>>,
      layers |-> 1, threw |-> FALSE,
      before |-> pixels,
      offsets |-> readPixelsOffsets(pixels, x, y, width, height, components),
      assigned |-> assigned,
      after |-> [j \in 1..Len(pixels) |->
                   IF Noised(j, components) THEN storePixels(kind, assigned[j])
                   ELSE pixels[j]]]

\* w >> k on the int32 the word stands for, for 0 < k < 16
Sar(w, k) ==
  LET fill == IF w.hi >= 32768 THEN (2^k - 1) * 2^(16 - k) ELSE 0
  IN Word((w.hi \div 2^k) + fill, ((w.hi % 2^k) * 2^(16 - k)) + (w.lo \div 2^k))

\* canvas.toDataURL of a WebGL canvas, for the pixel at (x, y): the hash of
\* `${x},${y},${gl.canvas.id}` and the noise for R, G and B
canvasNoise(x, y, id) ==
  LET h == hashString(Str(x) \o <<44>> \o Str(y) \o <<44>> \o id)
  IN << Rem7(h) - 3, Rem7(Sar(h, 3)) - 3, Rem7(Sar(h, 6)) - 3 >>

\* canvas.toDataURL of a WebGL canvas of the given width and id: pixels is
\* what getImageData returns for the temporary canvas, after what
\* putImageData puts back before the temporary canvas is serialized
glToDataURL(pixels, width, id) ==
  LET offsets == [j \in 1..Len(pixels) |->
                    IF Noised(j, 4)
                    THEN canvasNoise(((j - 1) \div 4) % width,
                                     ((j - 1) \div 4) \div width, id)[((j - 1) % 4) + 1]
                    ELSE 0]
      assigned == [j \in 1..Len(pixels) |->
                     IF Noised(j, 4) THEN clampPixel(pixels[j] + offsets[j])
                     ELSE pixels[j]]
  IN [op |-> "webgl.toDataURL", kind |-> "Uint8ClampedArray", components |-> 4,
      args |-> <<width>>, id |-> id,
      layers |-> 1, threw |-> FALSE,
      before |-> pixels, offsets |-> offsets, assigned |-> assigned,
      after |-> [j \in 1..Len(pixels) |-> storeImageData(assigned[j])]]

\* what initialize() leaves in prng and activeProfile, for each seed of the
\* configuration and each time
Sessions ==
  { selectProfile(SessionPRNG(seed, now)) : seed \in ConfigSeeds, now \in Clocks }

\* what the replacement installed by applyWebGLSpoofing in the given session
\* writes for the call: the replacements close over prng and activeProfile,
\* and the pixel loops of readPixels and toDataURL read neither
readBack(session, call) ==
  IF call.op = "readPixels"
  THEN readPixels(call.before, call.kind, call.args[1], call.args[2],
                  call.args[3], call.args[4], call.components).after
  ELSE glToDataURL(call.before, call.args[1], call.id).after

----------------------------------------------------------------------------------------------------------------------------------------
(* The surface the page reads back *)

\* RGBA pixels a canvas can hold
Pixels == {<<0, 0, 0, 255>>, <<255, 255, 255, 255>>, <<2, 128, 253, 254>>}

\* a pixel only a float framebuffer can hold
FloatPixels == {<<300, -2, 1, 1>>}

IsBytes(ps) == \A n \in 1..Len(ps) : ps[n] \in Pixels

\* the buffer holding the first components values of each pixel of ps
Flatten(ps, components) ==
  [j \in 1..(Len(ps) * components) |->
     ps[((j - 1) \div components) + 1][((j - 1) % components) + 1]]

NoRead == [op |-> "none", kind |-> "", components |-> 0, args |-> <<>>, id |-> <<>>,
           layers |-> 0, threw |-> FALSE,
           before |-> <<>>, offsets |-> <<>>, assigned |-> <<>>, after |-> <<>>]

NoExport == [op |-> "none", n |-> 0, result |-> "none", transform |-> <<>>,
             calls |-> <<>>, output |-> serialize(<<>>, <<>>)]

\* values of gl.canvas.id: "", "canvas"
CanvasIds == {<<>>, <<99, 97, 110, 118, 97, 115>>}

\* what a call of getImageData hands back: whether it threw, the session
\* generator after it, the buffer, the values the last noise loop assigned and
\* the number of noise loops that ran over the buffer
ReadResult(threw, g, data, assigned, layers) ==
  [threw |-> threw, g |-> g, data |-> data, assigned |-> assigned, layers |-> layers]

\* the host's getImageData
hostGetImageData(g, data) == ReadResult(FALSE, g, data, <<>>, 0)

\* a call of something that is not the host's function and not a wrapper that
\* can end: null, or a wrapper that is its own original
failedGetImageData(g, data) == ReadResult(TRUE, g, data, <<>>, 0)

\* tryOrFallback(original, spoofGetImageData(original, ..)) where original
\* does what inner says: the spoof path throws if the original throws or the
\* module has no generator, and then the fallback calls the original again
wrappedGetImageData(inner, width, height, now, hb) ==
  IF inner.threw THEN inner
  ELSE IF inner.g = NoPRNG
       THEN (IF hb THEN ReadResult(TRUE, inner.g, inner.data, <<>>, inner.layers)
             ELSE inner)
       ELSE Only({ ReadResult(FALSE, read.g, read.out.after, read.out.assigned,
                              inner.layers + 1) :
                     read \in { spoofGetImageData(inner.g, width, height,
                                                  inner.data, now) } })

\* CanvasRenderingContext2D.prototype.getImageData as patch() replaced it:
\* its original is originalMethods.getImageData, read when it runs
protoGetImageData(g, width, height, data, now, hb) ==
  wrappedGetImageData(IF originalMethods["getImageData"].k = "native"
                      THEN hostGetImageData(g, data)
                      ELSE failedGetImageData(g, data),
                      width, height, now, hb)

\* ctx.getImageData as spoofGetContext replaced it: its original is what
\* ctx.getImageData was when the context was processed
ctxGetImageData(g, width, height, data, nows, hb) ==
  wrappedGetImageData(CASE ctx2d.orig.k = "native" -> hostGetImageData(g, data)
                        [] ctx2d.orig.k = "wrapper" ->
                             protoGetImageData(g, width, height, data, nows[1], hb)
                        [] OTHER -> failedGetImageData(g, data),
                      width, height, nows[2], hb)

\* ctx.getImageData(..) on the 2D context of the canvas: the context's own
\* property if spoofGetContext set one, the prototype's function if not
contextGetImageData(g, width, height, data, nows, hb) ==
  Only({ [g |-> r.g,
          out |-> [op |-> "ctx.getImageData", kind |-> "Uint8ClampedArray",
                   components |-> 4, args |-> <<width, height>>, id |-> <<>>,
                   layers |-> r.layers, threw |-> r.threw,
                   before |-> data, offsets |-> <<>>, assigned |-> r.assigned,
                   after |-> r.data]] :
          r \in { IF ctx2d.processed
                  THEN ctxGetImageData(g, width, height, data, nows, hb)
                  ELSE IF IsWrapper(proto["getImageData"])
                       THEN protoGetImageData(g, width, height, data, nows[1], hb)
                       ELSE hostGetImageData(g, data) } })

\* the page reads the surface back through the 2D context of its canvas
ReadContext ==
  /\ surface # <<>> /\ IsBytes(surface)
  /\ \E nows \in [1..2 -> Clocks] :
       \E read \in { contextGetImageData(prng, Len(surface), 1, Flatten(surface, 4),
                                         nows, hardBlock) } :
         /\ prng' = read.g
         /\ noise' = read.out
  /\ UNCHANGED <<canvasConfig, sessionSeed, initCall, surface, exported, regVars, drawVars>>

\* the page draws: the surface gains a pixel
Paint ==
  /\ Len(surface) < MaxPixels
  /\ \E p \in Pixels \cup FloatPixels : surface' = Append(surface, p)
  /\ noise' = NoRead
  /\ exported' = NoExport
  /\ UNCHANGED <<sessVars, regVars, drawVars>>

InitCanvas ==
  /\ \E seed \in InitSeeds, options \in Options, generated \in GeneratedSeeds,
        now \in Clocks :
       init(seed, options, generated, now)
  /\ noise' = NoRead
  /\ exported' = NoExport
  /\ UNCHANGED <<surface, regVars, drawVars>>

\* ctx.getImageData() through the installed replacement, after init()
GetImageData ==
  /\ sessionSeed # Undefined
  /\ surface # <<>> /\ IsBytes(surface)
  /\ \E now \in Clocks :
       \E read \in { spoofGetImageData(prng, Len(surface), 1, Flatten(surface, 4), now) } :
         /\ prng' = read.g
         /\ noise' = read.out
  /\ UNCHANGED <<canvasConfig, sessionSeed, initCall, surface, exported, regVars, drawVars>>

\* gl.readPixels() through the installed replacement
ReadPixels ==
  /\ surface # <<>>
  /\ \E kind \in {"Uint8Array", "Float32Array"}, components \in {3, 4},
        rect \in {<<0, 0, 1, 1>>, <<-1, 0, 2, 1>>} :
       /\ kind = "Uint8Array" => IsBytes(surface)
       /\ noise' = readPixels(Flatten(surface, components), kind,
                              rect[1], rect[2], rect[3], rect[4], components)
  /\ UNCHANGED <<sessVars, surface, exported, regVars, drawVars>>

\* canvas.toDataURL() of a WebGL canvas through the installed replacement
ExportGL ==
  /\ surface # <<>> /\ IsBytes(surface)
  /\ \E id \in CanvasIds :
       noise' = glToDataURL(Flatten(surface, 4), Len(surface), id)
  /\ UNCHANGED <<sessVars, surface, exported, regVars, drawVars>>

\* canvas.toDataURL() through the installed replacement, after init()
ToDataURL ==
  /\ prng # NoPRNG
  /\ exported.n < MaxExports
  /\ \E fault \in ExportFaults :
       \E call \in { wrappedToDataURL(surface, prng, exported.n + 1, fault, hardBlock) } :
         /\ prng' = call.g
         /\ exported' = call.out
  /\ UNCHANGED <<canvasConfig, sessionSeed, initCall, surface, noise, regVars, drawVars>>

----------------------------------------------------------------------------
(* The injection harness and the bootstrap script *)

NoConfig == [op |-> "none", seed |-> Undefined, options |-> [k \in {} |-> 0]]

NoRun == [n |-> 0, called |-> <<>>]

\* results of generateSeed() of the harness: uint32 values
HarnessSeeds == {Num(0, 51966, 47806)}

\* seeds in the config handed to injectSpoofing: none, 42
InjectSeeds == {Undefined, Num(0, 0, 42)}

\* injectCanvasSpoofing(context, config): what the first init script leaves
\* in window.__obscura_config.canvas; the seed is also the seed of the
\* injection result
injectCanvasSpoofing(seed, options, generated) ==
  [op |-> "inject", seed |-> IF seed # Undefined THEN seed ELSE generated,
   options |-> options]

\* the harness injects before the context opens a page
Inject ==
  /\ bootRun.n = 0 /\ obscuraConfig = NoConfig
  /\ \E seed \in InjectSeeds, options \in Options, generated \in HarnessSeeds :
       obscuraConfig' = injectCanvasSpoofing(seed, options, generated)
  /\ UNCHANGED <<drawVars, pixVars, query, obscuraInitialized, bootRun,
                 proto, originalMethods, isPatched, glProto, initialized,
                 originalGetContext, activeProfile, webglPrng, hardBlock, ctx2d,
                 glWraps, last>>

\* the bootstrap script without its first two statements
bootstrap_unguarded(f, generated, now) ==
  /\ obscuraInitialized' = TRUE
  /\ init(Undefined, [k \in {} |-> 0], generated, now)
  /\ IF isPatched THEN patch(0) ELSE patch(f)
  /\ bootRun' = [n |-> bootRun.n + 1, called |-> <<"init", "patch">>]

\* one execution of the bootstrap script: the guard, then init() and patch()
bootstrap(f, generated, now) ==
  IF obscuraInitialized
  THEN /\ bootRun' = [n |-> bootRun.n + 1, called |-> <<>>]
       /\ UNCHANGED <<obscuraInitialized, sessVars, proto, originalMethods,
                      isPatched, last>>
  ELSE /\ obscuraInitialized' = TRUE
       /\ init(Undefined, [k \in {} |-> 0], generated, now)
       /\ patch(f)
       /\ bootRun' = [n |-> bootRun.n + 1, called |-> <<"init", "patch">>]

RunBootstrap ==
  /\ bootRun.n < MaxRuns
  /\ \E f \in PatchFaults, generated \in GeneratedSeeds, now \in Clocks :
       bootstrap(f, generated, now)
  /\ UNCHANGED <<drawVars, surface, noise, exported, query, obscuraConfig,
                 glProto, initialized, originalGetContext, activeProfile, webglPrng,
                 hardBlock, ctx2d, glWraps>>

----------------------------------------------------------------------------

NoOp == [op |-> "none", ret |-> TRUE, fault |-> 0, pre |-> Pristine,
         call |-> NoCall]

Init ==
  /\ proto = [m \in Methods |-> Native(m)]
  /\ originalMethods = [m \in Methods |-> Null]
  /\ isPatched = FALSE
  /\ glProto = Native("getContext")
  /\ initialized = FALSE
  /\ originalGetContext = Null
  /\ hardBlock = FALSE
  /\ ctx2d = [processed |-> FALSE, orig |-> Null]
  /\ glWraps = 0
  /\ last = NoOp
  /\ seeds = <<>>
  /\ gens = <<>>
  /\ outs = <<>>
  /\ calls = 0
  /\ hashed = <<>>
  /\ entropy = NoEntropy
  /\ canvasConfig = DefaultConfig
  /\ activeProfile = NoProfile
  /\ query = NoQuery
  /\ obscuraInitialized = FALSE
  /\ obscuraConfig = NoConfig
  /\ bootRun = NoRun
  /\ webglPrng = NoPRNG
  /\ sessionSeed = Undefined
  /\ prng = NoPRNG
  /\ initCall = NoInit
  /\ exported = NoExport
  /\ surface = <<>>
  /\ noise = NoRead

\* Spec: installs and uninstalls of both modules on hosts whose property
\* accesses may throw.
Next ==
  \/ Patch
  \/ Unpatch
  \/ Initialize
  \/ Disable

Spec == Init /\ [][Next]_vars

\* SpecCalls: installs and uninstalls on hosts that do not throw, and the
\* calls the page makes through whatever is installed.
Install ==
  /\ patch(0)
  /\ UNCHANGED <<auxVars, glProto, initialized, originalGetContext, activeProfile, webglPrng, hardBlock, ctx2d, glWraps>>

Uninstall ==
  /\ unpatch(0)
  /\ UNCHANGED <<auxVars, glProto, initialized, originalGetContext, activeProfile, webglPrng, hardBlock, ctx2d, glWraps>>

Enable ==
  /\ \E seed \in ConfigSeeds, now \in Clocks : initialize(0, seed, now)
  /\ UNCHANGED <<auxVars, proto, originalMethods, isPatched, hardBlock, ctx2d, glWraps>>

Withdraw ==
  /\ disable(0)
  /\ UNCHANGED <<auxVars, proto, originalMethods, isPatched, hardBlock, ctx2d, glWraps>>

NextCalls ==
  \/ Install
  \/ Uninstall
  \/ Enable
  \/ Withdraw
  \/ CallProto
  \/ CallCtxGetImageData
  \/ GetContext2D
  \/ GetContextGL
  \/ CallGL
  \/ SetHardBlock

SpecCalls == Init /\ [][NextCalls]_vars

\* SpecGL: the WebGL module on a host that does not throw, and the queries
\* the page makes of the context.
NextGL ==
  \/ Enable
  \/ Withdraw
  \/ GetContextGL
  \/ GetParameter
  \/ GetExtension

SpecGL == Init /\ [][NextGL]_vars

\* SpecBoot: the harness, executions of the bootstrap script, and the WebGL
\* module.
NextBoot ==
  \/ Inject
  \/ RunBootstrap
  \/ Initialize
  \/ Disable

SpecBoot == Init /\ [][NextBoot]_vars

\* SpecPRNG: two generators driven through the same draws.
NextPRNG ==
  \/ Create
  \/ DrawRandom
  \/ DrawRandomInt
  \/ DrawRandomRange
  \/ Hash

SpecPRNG == Init /\ [][NextPRNG]_vars

\* SpecNoise: init(), the page's drawing and the two pixel reads.
NextNoise ==
  \/ InitCanvas
  \/ Paint
  \/ GetImageData
  \/ ReadPixels
  \/ ExportGL

SpecNoise == Init /\ [][NextNoise]_vars

\* SpecExport: init(), the page's drawing and the exports.
NextExport ==
  \/ InitCanvas
  \/ Paint
  \/ ToDataURL

SpecExport == Init /\ [][NextExport]_vars

\* SpecSeed: runs of generateSessionSeed() and calls of init().
NextSeed ==
  \/ GenerateSessionSeed
  \/ InitCanvas

SpecSeed == Init /\ [][NextSeed]_vars

\* SpecSession: init(), the page's drawing, the 2D reads and the exports.
NextSession ==
  \/ InitCanvas
  \/ Paint
  \/ GetImageData
  \/ ToDataURL

SpecSession == Init /\ [][NextSession]_vars

\* SpecPage: the bootstrap script, installs and uninstalls on a host that does
\* not throw, the page's getContext('2d'), its drawing and its reads through
\* the context.
Load ==
  /\ bootRun.n < MaxRuns
  /\ \E generated \in GeneratedSeeds, now \in Clocks : bootstrap(0, generated, now)
  /\ UNCHANGED <<drawVars, surface, noise, exported, query, obscuraConfig,
                 glProto, initialized, originalGetContext, activeProfile, webglPrng,
                 hardBlock, ctx2d, glWraps>>

NextPage ==
  \/ Load
  \/ Install
  \/ Uninstall
  \/ GetContext2D
  \/ Paint
  \/ ReadContext

SpecPage == Init /\ [][NextPage]_vars

----------------------------------------------------------------------------
(* Interception registry: install / uninstall (checked under Spec) *)

\* C1: starting Unpatched, patch() followed at once by unpatch() leaves the
\* three prototype methods equal to the references they held before patch(),
\* with isPatched false; likewise initialize() followed by disable() restores
\* HTMLCanvasElement.prototype.getContext.
C1_RoundTrip ==
  [][ /\ (last.op = "patch" /\ ~last.pre.isPatched /\ last'.op = "unpatch")
         => (proto' = last.pre.proto /\ ~isPatched')
      /\ (last.op = "initialize" /\ ~last.pre.initialized /\ last'.op = "disable")
         => (glProto' = last.pre.glProto) ]_vars

\* The round trip of C1 when both calls report success.
RoundTripWhenSucceeding ==
  [][ /\ (last.op = "patch" /\ last.ret /\ ~last.pre.isPatched
            /\ last'.op = "unpatch" /\ last'.ret)
         => (proto' = last.pre.proto /\ ~isPatched')
      /\ (last.op = "initialize" /\ last.ret /\ ~last.pre.initialized
            /\ last'.op = "disable" /\ last'.ret)
         => (glProto' = last.pre.glProto) ]_vars

Unchanged(pre) == /\ proto = pre.proto
                  /\ originalMethods = pre.originalMethods
                  /\ isPatched = pre.isPatched

\* C2: patch() while Patched returns true and changes nothing, so that
\* originalMethods never holds one of the module's own wrappers; unpatch()
\* while Unpatched returns true and changes nothing.
C2_Idempotent ==
  /\ (last.op = "patch" /\ last.pre.isPatched) => (last.ret /\ Unchanged(last.pre))
  /\ (last.op = "unpatch" /\ ~last.pre.isPatched) => (last.ret /\ Unchanged(last.pre))
  /\ \A m \in Methods : ~IsWrapper(originalMethods[m])

\* The two no-op cases of C2 alone.
NoOpWhenAlreadyThere ==
  /\ (last.op = "patch" /\ last.pre.isPatched) => (last.ret /\ Unchanged(last.pre))
  /\ (last.op = "unpatch" /\ ~last.pre.isPatched) => (last.ret /\ Unchanged(last.pre))

\* C3: a patch() in which a capture or replacement step fails returns false
\* with isPatched false and no prototype method left replaced by a wrapper; in
\* every state isPatched holds exactly when the prototype methods are wrappers.
C3_NoPartialPatch ==
  /\ (last.op = "patch" /\ last.fault # 0)
       => (~last.ret /\ ~isPatched /\ \A m \in Methods : ~IsWrapper(proto[m]))
  /\ isPatched <=> (\A m \in Methods : IsWrapper(proto[m]))

----------------------------------------------------------------------------
(* Fallback contract of the installed replacements (checked under SpecCalls) *)

ThroughTry == last.op = "call" /\ last.call.via = "tryOrFallback"
ThroughAny == last.op = "call" /\ last.call.via \in {"tryOrFallback", "unguarded"}

NativeOutcome == [kind |-> "return",
                  val |-> Invoke(last.call.captured, last.call.this, last.call.args)]

\* C4: through tryOrFallback with hardBlock off, a spoof function that throws
\* makes the call return what the captured original returns for the same
\* this-value and arguments; one that does not throw has its own result
\* returned and the original is not invoked as a fallback.
C4_FallbackReturnsNative ==
  (ThroughTry /\ ~last.call.hb) =>
     IF last.call.threw
     THEN last.call.result = NativeOutcome /\ last.call.fallbacks = 1
     ELSE /\ last.call.result.kind = "return"
          /\ last.call.result.val.tag = "spoofed"
          /\ last.call.fallbacks = 0

C4_Witness ==
  /\ ThroughTry /\ ~last.call.hb /\ last.call.threw
  /\ last.call.result.val.tag = "invoke"
  /\ last.call.m = "getImageData" /\ last.call.args = <<1, 1, 2, 2>>

\* C5: with hardBlock on, a wrapped call whose spoof path throws raises an
\* error to the caller, does not invoke the captured original as a fallback,
\* and runs the spoof path once.
C5_HardBlockPropagates ==
  (ThroughTry /\ last.call.hb /\ last.call.threw) =>
     /\ last.call.result.kind = "throw"
     /\ last.call.fallbacks = 0
     /\ last.call.attempts = 1

C5_Witness ==
  /\ ThroughTry /\ last.call.hb /\ last.call.threw
  /\ last.call.result.kind = "throw"

\* C6: every installed replacement follows the fallback contract: with
\* hardBlock off, an exception of the spoofing code never reaches the caller,
\* who receives the original method's result.
C6_EveryReplacementFallsBack ==
  (ThroughAny /\ ~last.call.hb /\ last.call.threw) =>
     last.call.result = NativeOutcome

\* The replacements of the canvas module alone do follow it.
CanvasReplacementsFallBack ==
  (ThroughTry /\ ~last.call.hb /\ last.call.threw) =>
     last.call.result = NativeOutcome

----------------------------------------------------------------------------
(* createPRNG (checked under SpecPRNG) *)

Made == gens # <<>>
InStep == gens[1] = gens[2] /\ outs[1] = outs[2]

\* C7: for every seed value, two generators created from that seed and driven
\* through the same draws return the same outputs and have the same state
\* after every draw.
C7_SameSeedSameSequence ==
  (Made /\ seeds[1] = seeds[2]) => InStep

\* C7, amended: the same for every seed that is a non-zero number; a seed of
\* 0, NaN or undefined is replaced by the clock reading at creation.
C7_NonZeroSeedSameSequence ==
  (Made /\ seeds[1] = seeds[2] /\ ~Falsy(seeds[1])) => InStep

C7_Witness ==
  /\ Made /\ seeds[1] = seeds[2] /\ seeds[1] = Num(0, 65535, 65535)
  /\ calls >= 2 /\ outs[1].op = "randomRange" /\ InStep

C9_StateNeverZero ==
  Made => \A n \in {1, 2} : gens[n].state # Zero /\ gens[n].steps = calls

\* a generator whose seed converts to the word 0, after two draws
C9_Witness ==
  /\ Made /\ ToUint32(seeds[1]) = Zero /\ Falsy(seeds[2])
  /\ calls = 2 /\ gens[1].state # Zero /\ gens[1].steps = 2

\* h * 16777619 modulo 2^32 by shifts and sums:
\* h + (h << 1) + (h << 4) + (h << 7) + (h << 8) + (h << 24)
TimesPrime(h) ==
  Add(Add(Add(h, Shl(h, 1)), Add(Shl(h, 4), Shl(h, 7))),
      Add(Shl(h, 8), Word((h.lo * 256) % Base, 0)))

\* the reference 32-bit FNV-1a of the first n characters of str
RECURSIVE FNV1a(_, _)
FNV1a(str, n) ==
  IF n = 0 THEN Word(33052, 40389)
  ELSE Only({ TimesPrime(Xor(h, Word(0, str[n]))) : h \in { FNV1a(str, n - 1) } })

\* C20: hash(str) is the reference 32-bit FNV-1a of str for every string, is
\* the same on generators of any seed and state (0xafd071e5 for "test"), and
\* leaves the state of the generator as it was.
C20_HashIsFNV1a ==
  [][ (gens # <<>> /\ outs'[1].op = "hash") =>
        /\ gens' = gens
        /\ outs'[1].num = FNV1a(hashed', Len(hashed'))
        /\ outs'[2].num = outs'[1].num
        /\ hashed' = <<116, 101, 115, 116>> => outs'[1].num = Word(45008, 29157) ]_vars

\* "test" hashed on two generators of different seeds, after draws
C20_Witness ==
  /\ Made /\ outs[1].op = "hash" /\ hashed = <<116, 101, 115, 116>>
  /\ outs[1].num = Word(45008, 29157) /\ outs[2].num = Word(45008, 29157)
  /\ gens[1] # gens[2] /\ calls >= 2

\* a character above 255 reaches the high byte of the low half
HashOfWideCharacter ==
  /\ Made /\ outs[1].op = "hash" /\ hashed = <<8364>>

----------------------------------------------------------------------------
(* Pixel noise (checked under SpecNoise) *)

InByte(v) == v >= 0 /\ v <= 255

\* C10: for every buffer, seed and configured pixelNoiseRange and
\* alphaNoiseRange, every R, G, B and alpha value the 2D transform leaves in
\* the image data, and every element the readPixels noise writes, is in
\* [0,255].
C10_BytesInRange ==
  /\ noise.op = "getImageData" =>
       \A j \in 1..Len(noise.after) : InByte(noise.after[j])
  /\ noise.op = "readPixels" =>
       \A j \in 1..Len(noise.after) :
         Noised(j, noise.components) => InByte(noise.after[j])

\* an alpha the transform computes above 255 and one it computes below 0
C10_Witness ==
  /\ noise.op = "getImageData" /\ Len(noise.after) = 8
  /\ noise.assigned[4] > 255 /\ noise.after[4] = 255
  /\ canvasConfig.alphaNoiseRange < 0

\* the readPixels noise meets both ends of the range
ReadPixelsClamps ==
  /\ noise.op = "readPixels" /\ noise.kind = "Float32Array"
  /\ \E j \in 1..Len(noise.after) : noise.before[j] > 255 /\ noise.after[j] = 255
  /\ \E j \in 1..Len(noise.after) : noise.before[j] < 0 /\ noise.after[j] = 0

\* an alpha computed below 0 is stored as 0
AlphaBelowZero ==
  /\ noise.op = "getImageData"
  /\ \E j \in 1..Len(noise.after) : noise.assigned[j] < 0 /\ noise.after[j] = 0

\* two reads of the same canvas in the same session, one after the other
SecondRead == noise.op = "getImageData" /\ noise'.op = "getImageData"

\* sessionSeed ^ contentHash for the canvas as it is
ContentSeed ==
  XorNumber(sessionSeed, contentHash(Len(surface), 1, Flatten(surface, 4)))

\* C11: for every session seed and every canvas content, two successive
\* intercepted getImageData calls on the same unchanged canvas in the same
\* session return identical noised buffers.
C11_SameContentSameNoise ==
  [][ SecondRead => noise'.after = noise.after ]_vars

\* the two reads agree whenever sessionSeed ^ contentHash is not 0
SameNoiseWhenContentSeedNonZero ==
  [][ (SecondRead /\ ~Falsy(ContentSeed)) => noise'.after = noise.after ]_vars

----------------------------------------------------------------------------
(* Session seed (checked under SpecNoise) *)

\* C17: for every explicit 32-bit seed s passed to init(s), the session seed
\* is s, the session generator is created from s, and generateSessionSeed
\* is not called.
C17_ExplicitSeedBypassesEntropy ==
  (initCall.op = "init" /\ initCall.seed.tag = "number") =>
     /\ sessionSeed = initCall.seed
     /\ ~initCall.generated
     /\ prng.steps = 0 => prng.state = ToUint32(initCall.seed)

\* every non-zero explicit seed is taken as it is
NonZeroSeedBypassesEntropy ==
  (initCall.op = "init" /\ ~Falsy(initCall.seed)) =>
     /\ sessionSeed = initCall.seed
     /\ ~initCall.generated
     /\ prng.steps = 0 => prng.state = ToUint32(initCall.seed)

\* C18: once init has set sessionSeed, no operation changes it.
C18_SessionSeedImmutable ==
  [][ sessionSeed # Undefined => sessionSeed' = sessionSeed ]_vars

----------------------------------------------------------------------------
(* Canvas export (checked under SpecExport) *)

\* two exports of the same canvas in the same session, one after the other,
\* each returning what its spoof path made
SecondExport == exported.result = "spoofed" /\ exported'.result = "spoofed"

\* C12: two successive intercepted toDataURL calls on the same unchanged
\* canvas in the same session use different transform parameters and return
\* different serialized output.
C12_SuccessiveExportsDiffer ==
  [][ SecondExport =>
        /\ exported'.transform # exported.transform
        /\ exported'.output # exported.output ]_vars

\* C12, amended: the two calls use different transform parameters, each of
\* the five values of the second drawn from the state the first call left
\* the session generator in.
C12_SuccessiveTransformsDiffer ==
  [][ SecondExport =>
        /\ exported'.transform # exported.transform
        /\ \A k \in 1..5 : exported'.transform[k].num # exported.transform[k].num
        /\ prng'.steps = prng.steps + 5 ]_vars

\* a second export of a canvas that holds pixels
C12_Witness ==
  /\ exported.result = "spoofed" /\ exported.n = 2 /\ surface # <<>>
  /\ prng.steps = 10 /\ Len(exported.transform) = 5

\* a second export of a canvas that holds no pixel
SecondExportOfEmptyCanvas ==
  /\ exported.result = "spoofed" /\ exported.n = 2 /\ surface = <<>>

----------------------------------------------------------------------------
(* WebGL identity (checked under SpecGL) *)

\* a query the page has just made
Asked(op) == query'.op = op /\ (query.op # op \/ query' # query)

FromReal(m, arg) == Answer("real", "", Invoke(GLRef(m, 0), "cgl", <<arg>>), 1)

FromProfile(str) == Answer("string", str, Nothing, 0)

\* C13: on a spoofed context getParameter returns the unmasked renderer and
\* vendor of the active profile for 0x9246 and 0x9245, its vendor and renderer
\* for gl.VENDOR and gl.RENDERER, and for every other token what the real
\* getParameter returns for that token.
C13_ParameterFromProfileOrReal ==
  [][ Asked("getParameter") =>
        query'.answer =
          CASE query'.pname = 37446 -> FromProfile(activeProfile.unmaskedRenderer)
            [] query'.pname = 37445 -> FromProfile(activeProfile.unmaskedVendor)
            [] query'.pname = 7936 -> FromProfile(activeProfile.vendor)
            [] query'.pname = 7937 -> FromProfile(activeProfile.renderer)
            [] OTHER -> FromReal("getParameter", query'.pname) ]_vars

\* the unmasked renderer asked of a context wrapped twice, under the second
\* profile
C13_Witness ==
  /\ query.op = "getParameter" /\ query.pname = 37446 /\ query.wraps = 2
  /\ activeProfile = profiles[2]
  /\ query.answer.str = profiles[2].unmaskedRenderer

\* a token the profile does not define, passed through two replacements
ParameterPassedThrough ==
  /\ query.op = "getParameter" /\ query.pname = 3379 /\ query.wraps = 2
  /\ query.answer.kind = "real" /\ query.answer.real = 1

\* C14: on a spoofed context getExtension('WEBGL_debug_renderer_info')
\* returns null without calling the real getExtension, and getExtension of
\* every other name returns what the real getExtension returns for it.
C14_DebugInfoBlocked ==
  [][ Asked("getExtension") =>
        query'.answer =
          IF query'.name = "WEBGL_debug_renderer_info"
          THEN Answer("null", "", Nothing, 0)
          ELSE FromReal("getExtension", query'.name) ]_vars

C14_Witness ==
  /\ query.op = "getExtension" /\ query.name = "WEBGL_debug_renderer_info"
  /\ query.answer.kind = "null" /\ query.answer.real = 0 /\ query.wraps = 2

ExtensionPassedThrough ==
  /\ query.op = "getExtension" /\ query.name = "OES_texture_float"
  /\ query.answer.kind = "real" /\ query.wraps = 2

\* a successful initialize() has run: the module is initialized, or a
\* disable() has just ended it
HasInitialized == initialized \/ (last.op = "disable" /\ last.ret)

\* C15: after the first successful initialize(), no initialize(), disable()
\* or intercepted call changes activeProfile, and the profile is one of the
\* catalogue.
C15_ProfileWrittenOnce ==
  [][ /\ HasInitialized => activeProfile' = activeProfile
      /\ activeProfile' # activeProfile =>
            \E k \in 1..Len(profiles) : activeProfile' = profiles[k] ]_vars

\* the profile is the one of the catalogue or none, and changes only in
\* initialize()
ProfileFromCatalogue ==
  [][ activeProfile' # activeProfile =>
        /\ last'.op = "initialize" /\ ~initialized
        /\ \E k \in 1..Len(profiles) : activeProfile' = profiles[k] ]_vars

----------------------------------------------------------------------------
(* Double initialization and injected configuration (checked under SpecBoot) *)

\* C16: an execution of the bootstrap script after the first calls neither
\* init() nor patch() and changes neither sessionSeed, the session generator
\* nor the prototype methods; an initialize() of the initialized WebGL module
\* returns what it holds and installs no hook.
C16_InitializesOnce ==
  [][ /\ (obscuraInitialized /\ bootRun'.n > bootRun.n) =>
            /\ bootRun'.called = <<>>
            /\ UNCHANGED <<sessionSeed, prng, canvasConfig, proto, originalMethods,
                           isPatched>>
      /\ (initialized /\ last'.op = "initialize" /\ last' # last) =>
            /\ last'.ret
            /\ UNCHANGED <<glProto, originalGetContext, activeProfile, webglPrng,
                           initialized>> ]_vars

\* a second execution of the script, and an initialize() of the initialized
\* module
C16_Witness ==
  /\ bootRun.n = 2 /\ bootRun.called = <<>> /\ isPatched
  /\ last.op = "initialize" /\ last.pre.initialized /\ initialized

\* C19: the configuration handed to injectSpoofing is the configuration of
\* the injected script: the seed of the injection result is the sessionSeed
\* of the page, and a pixelNoiseRange or alphaNoiseRange supplied is the
\* range the pixel noise uses.
C19_InjectedConfigIsEffective ==
  (obscuraConfig.op = "inject" /\ bootRun.n > 0) =>
     /\ sessionSeed = obscuraConfig.seed
     /\ \A k \in DOMAIN obscuraConfig.options :
          canvasConfig[k] = obscuraConfig.options[k]

----------------------------------------------------------------------------
(* Alpha of the 2D pixel noise (checked under SpecNoise) *)

\* the positions of the alpha values in the buffer of the read made last
AlphaIndices == {4 * p : p \in 1..(Len(noise.after) \div 4)}

\* the integers randomInt(0, alphaNoiseRange) can return
AlphaDraws ==
  LET range == canvasConfig.alphaNoiseRange
  IN (IF range + 1 < 0 THEN range + 1 ELSE 0)..(IF range > 0 THEN range ELSE 0)

NegativeAlphaDraw ==
  /\ noise.op = "getImageData" /\ canvasConfig.alphaNoiseRange < 0
  /\ \E a \in AlphaIndices : noise.before[a] = 255 /\ noise.assigned[a] > 255

----------------------------------------------------------------------------
(* Session seed generation (checked under SpecSeed) *)

\* floor(timestamp / 256^i) mod 256
LittleEndianByte(timestamp, i) ==
  IF i < 2 THEN (timestamp.lo \div 256^i) % 256
  ELSE IF i < 4 THEN (timestamp.hi \div 256^(i - 2)) % 256
  ELSE IF i < 6 THEN (timestamp.top \div 256^(i - 4)) % 256
  ELSE 0

\* C22: generateSessionSeed mixes the eight little-endian bytes of the
\* timestamp, the i-th byte fed to the accumulation being
\* floor(timestamp / 256^i) mod 256 for i = 0..7, then the eight bytes of the
\* random scalar, and returns an unsigned 32-bit integer.
C22_MixesEightTimestampBytes ==
  entropy.op = "generateSessionSeed" =>
    /\ \A i \in 0..7 : entropy.fed[i + 1] = LittleEndianByte(entropy.timestamp, i)
    /\ \A i \in 1..8 : entropy.fed[8 + i] = entropy.randomBytes[i]
    /\ entropy.seed.tag = "number" /\ entropy.seed.top = 0
    /\ entropy.seed.hi \in 0..(Base - 1) /\ entropy.seed.lo \in 0..(Base - 1)

\* what generateSessionSeed mixes: the four low bytes of the timestamp twice,
\* then the eight bytes of the random scalar; it returns the FNV-1a
\* accumulation of the sixteen bytes as an unsigned 32-bit integer
MixesLowWordTwice ==
  entropy.op = "generateSessionSeed" =>
    /\ \A i \in 0..3 : /\ entropy.fed[i + 1] = LittleEndianByte(entropy.timestamp, i)
                       /\ entropy.fed[i + 5] = entropy.fed[i + 1]
    /\ \A i \in 1..8 : entropy.fed[8 + i] = entropy.randomBytes[i]
    /\ entropy.seed.tag = "number" /\ entropy.seed.top = 0
    /\ ToUint32(entropy.seed) = FNV1a(entropy.fed, 16)

\* the seed of Date.now() = 1730871820288 and a random scalar of 500000
SeedOfKnownEntropy ==
  /\ entropy.timestamp = Num(403, 0, 0)
  /\ entropy.randomBytes = <<0, 0, 0, 0, 128, 132, 30, 65>>
  /\ entropy.seed = Num(0, 48643, 55092)

----------------------------------------------------------------------------
(* Noise of the readPixels replacement (checked under SpecNoise) *)

\* the alpha elements of a 4-component read are as the real readPixels left
\* them
AlphaAsRead ==
  noise.components = 4 =>
    \A j \in 1..Len(noise.after) :
      ~Noised(j, 4) => noise.after[j] = noise.before[j] /\ noise.offsets[j] = 0

\* C23: for an intercepted readPixels call the noise offset added to each R,
\* G or B element lies in [-3, 3] for every read rectangle and every index,
\* and for a 4-component format every alpha element is left as the real
\* readPixels wrote it.
C23_OffsetsSymmetric ==
  noise.op = "readPixels" =>
    /\ \A j \in 1..Len(noise.offsets) :
         Noised(j, noise.components) => noise.offsets[j] \in -3..3
    /\ AlphaAsRead

\* what the replacement does add: a remainder of a signed hash, less 3
OffsetsFromMinusNine ==
  noise.op = "readPixels" =>
    /\ \A j \in 1..Len(noise.offsets) :
         Noised(j, noise.components) => noise.offsets[j] \in -9..3
    /\ AlphaAsRead

\* a read of the rectangle (0, 0, 1, 1): its first element gets -6
OffsetBelowMinusThree ==
  /\ noise.op = "readPixels" /\ noise.components = 4
  /\ noise.offsets[1] = -6 /\ noise.offsets[4] = 0

----------------------------------------------------------------------------
(* Per-context wrapping (checked under SpecCalls) *)

\* the functions applyWebGLSpoofing replaces on the context itself
ContextMethods == {"getParameter", "getExtension", "readPixels"}

\* the 2D context is wrapped once: once processed, its marker and the
\* original its wrapper captured stay as they are, and that original is the
\* function found on the prototype, never the context's own wrapper
Context2DWrappedOnce ==
  /\ [](ctx2d.processed => ctx2d.orig.k \in {"native", "wrapper"})
  /\ [][ctx2d.processed => ctx2d' = ctx2d]_vars

\* C24: a context obtained through a patched getContext is wrapped at most
\* once however many times getContext is called for the same canvas: later
\* calls install no other wrapper, so the original a per-context wrapper
\* captured is never itself a per-context wrapper (getImageData of the 2D
\* context; getParameter, getExtension and readPixels of the WebGL context).
C24_ContextWrappedOnce ==
  /\ ctx2d.processed => ctx2d.orig.k \in {"native", "wrapper"}
  /\ glWraps <= 1
  /\ glWraps > 0 => \A m \in ContextMethods : GLRef(m, glWraps - 1).k = "native"

\* the second getContext('webgl') of the same canvas wrapped the context
\* again: the original of its getParameter is the first replacement
GLContextWrappedTwice ==
  /\ glWraps = 2 /\ last.op = "call" /\ last.call.m = "getContext"
  /\ GLRef("getParameter", glWraps - 1).k = "glwrapper"

\* the second getContext('2d') of the same canvas found the marker
Context2DFoundProcessed ==
  /\ ctx2d.processed /\ last.op = "call" /\ last.call.m = "getContext"
  /\ last.call.this = "c2d" /\ IsWrapper(last.call.result.val.fn)

----------------------------------------------------------------------------
(* WebGL read-back across sessions (checked under SpecNoise) *)

\* a read-back of the WebGL module was made
ReadBackMade == noise.op \in {"readPixels", "webgl.toDataURL"}

\* C25: the noise applied by the intercepted readPixels and by the
\* WebGL-backed toDataURL depends on the session seed: for the content and
\* the call made there are two sessions, of different seeds, in which the
\* noised output differs.
C25_ReadBackVariesPerSession ==
  ReadBackMade =>
    \E a \in Sessions, b \in Sessions :
      a.g # b.g /\ readBack(a, noise) # readBack(b, noise)

\* the noised output is the same in every session
ReadBackSameInEverySession ==
  ReadBackMade => \A session \in Sessions : readBack(session, noise) = noise.after

\* a read-back that changed the pixels, while the sessions differ in
\* generator and in profile
NoisedReadBack ==
  /\ ReadBackMade /\ noise.after # noise.before
  /\ \E a \in Sessions, b \in Sessions : a.g # b.g /\ a.profile # b.profile

\* the toDataURL noise of the pixel (0, 0) of the canvas "canvas"
KnownCanvasNoise ==
  /\ noise.op = "webgl.toDataURL" /\ noise.id # <<>>
  /\ noise.offsets[1] = -8 /\ noise.offsets[2] = -8 /\ noise.offsets[3] = -3

----------------------------------------------------------------------------
(* Order of the draws and of the transform (checked under SpecExport) *)

\* a toDataURL call was just made, and its spoof path completed
Exported == exported'.n = exported.n + 1 /\ exported'.result = "spoofed"

\* the k-th of five successive randomRange draws on the generator g, with
\* the bounds of scaleX, scaleY, translateX, translateY, rotate in that order
FifthOf(g) ==
  LET scaleX == randomRange(g, -2, 2)
      scaleY == randomRange(scaleX.g, -2, 2)
      translateX == randomRange(scaleY.g, -300, 300)
      translateY == randomRange(translateX.g, -300, 300)
      rotate == randomRange(translateY.g, -2, 2)
  IN [scaleX |-> scaleX.out, scaleY |-> scaleY.out, translateX |-> translateX.out,
      translateY |-> translateY.out, rotate |-> rotate.out, g |-> rotate.g]

\* C26: each intercepted toDataURL call that completes its spoof path
\* advances the session generator by exactly five draws, taken in the order
\* scaleX, scaleY, translateX, translateY, rotate, and applies them to the
\* scratch context in the order translate, rotate, scale, before it draws the
\* source canvas and serializes the scratch canvas with the original
\* toDataURL.
C26_FiveDrawsThenTranslateRotateScale ==
  [][ Exported =>
        LET d == FifthOf(prng)
        IN /\ prng' = d.g /\ prng'.steps = prng.steps + 5
           /\ exported'.transform =
                <<d.scaleX, d.scaleY, d.translateX, d.translateY, d.rotate>>
           /\ exported'.calls =
                << CtxCall("save", <<>>, 0),
                   CtxCall("translate", <<d.translateX, d.translateY>>, 0),
                   CtxCall("rotate", <<d.rotate>>, 0),
                   CtxCall("scale", <<d.scaleX, d.scaleY>>, 1),
                   CtxCall("drawImage", <<>>, 0),
                   CtxCall("restore", <<>>, 0),
                   CtxCall("toDataURL", <<>>, 0) >>
           /\ exported'.output = serialize(surface, exported'.transform) ]_vars

\* a completed export of a canvas that holds pixels, the first of its session
C26_Witness ==
  /\ exported.result = "spoofed" /\ exported.n = 1 /\ surface # <<>>
  /\ prng.steps = 5 /\ Len(exported.calls) = 7
  /\ exported.calls[2].op = "translate" /\ exported.calls[4].op = "scale"

----------------------------------------------------------------------------
(* Failure of the spoof path of toDataURL (checked under SpecExport) *)

\* a toDataURL call was just made, its spoof path threw and the call
\* returned what the original returns
FellBack == exported'.n = exported.n + 1 /\ exported'.result = "native"

\* C30: a wrapped call that falls back to native because its spoof path threw
\* leaves the session state as it was before the call: the session
\* generator, sessionSeed, isPatched and originalMethods are unchanged, so a
\* failed toDataURL consumes no session randomness.
C30_FallbackLeavesSessionState ==
  [][ FellBack => UNCHANGED <<prng, sessionSeed, isPatched, originalMethods>> ]_vars

\* what does hold: the call changes neither sessionSeed, isPatched nor
\* originalMethods, and the generator is as it was when the spoof path threw
\* before applyCanvasTransform; it is five draws further on when
\* drawImage threw
FallbackKeepsSeedAndRegistry ==
  [][ FellBack =>
        /\ UNCHANGED <<sessionSeed, isPatched, originalMethods>>
        /\ exported'.calls = <<>> => prng' = prng
        /\ exported'.calls # <<>> => prng' = FifthOf(prng).g ]_vars

\* a toDataURL that fell back after drawImage threw, the first call of its
\* session: the generator is five draws on
FallbackAfterDraws ==
  /\ exported.result = "native" /\ exported.n = 1 /\ prng.steps = 5
  /\ Len(exported.calls) = 5 /\ exported.calls[5].op = "drawImage"

\* ---- C29 ----

\* a getImageData call through the wrapper
ImageDataRead == noise'.op = "getImageData" /\ noise' # noise

RECURSIVE stepped(_, _)
\* the generator k xorshift32 steps after g
stepped(g, k) ==
  IF k = 0 THEN g
  ELSE Only({ stepped(n, k - 1) : n \in { xorshift32(g).g } })

\* the session generator init() made, k draws later
SessionGenerator(k) == stepped(createPRNG(sessionSeed, CHOOSE now \in Clocks : TRUE), k)

\* C29: a getImageData call leaves the session generator as it found it (its
\* noise comes from a generator built for the call, and prng.hash draws
\* nothing), so the transform of an export is the one the session seed and the
\* number of draws of the earlier exports give, however many getImageData
\* calls came between them.
C29_ReadsLeaveSessionGenerator ==
  [][ /\ ImageDataRead => prng' = prng
      /\ Exported =>
           LET d == FifthOf(SessionGenerator(prng.steps))
           IN exported'.transform =
                <<d.scaleX, d.scaleY, d.translateX, d.translateY, d.rotate>> ]_vars

\* a canvas read with getImageData and exported twice in one session
C29_Witness ==
  /\ noise.op = "getImageData"
  /\ exported.result = "spoofed" /\ exported.n = 2
  /\ prng = SessionGenerator(10)

\* ---- C27 ----

\* a getImageData call on the 2D context of the canvas
ContextRead == noise'.op = "ctx.getImageData" /\ noise' # noise

\* the colour and the alpha components of the buffer read last
ColourIndices == { j \in 1..Len(noise.before) : j % 4 # 0 }
OpacityIndices == { j \in 1..Len(noise.before) : j % 4 = 0 }

Distance(a, b) == IF a >= b THEN a - b ELSE b - a

\* C27: while the module is patched and initialised, a getImageData call on a
\* context that came from the patched getContext('2d') runs the noise loop
\* over the buffer exactly once: every colour component of the returned
\* buffer is within pixelNoiseRange of the host's value, every alpha
\* component within alphaNoiseRange.
C27_ContextReadNoisedOnce ==
  [][ (ContextRead /\ isPatched /\ ctx2d.processed /\ prng # NoPRNG) =>
        /\ noise'.layers = 1
        /\ \A j \in 1..Len(noise'.before) :
             Distance(noise'.after[j], noise'.before[j])
               <= (IF j % 4 = 0 THEN canvasConfig.alphaNoiseRange
                   ELSE canvasConfig.pixelNoiseRange) ]_vars

\* every read through a processed context of an initialised module runs the
\* noise loop twice, whether the module is still patched or not
ContextReadNoisedTwice ==
  [][ (ContextRead /\ ctx2d.processed /\ prng # NoPRNG) => noise'.layers = 2 ]_vars

\* a read under the default ranges whose colour differs from the host's by
\* more than pixelNoiseRange
ColourBeyondRange ==
  /\ noise.op = "ctx.getImageData" /\ canvasConfig = DefaultConfig
  /\ isPatched /\ ctx2d.processed
  /\ \E j \in ColourIndices : Distance(noise.after[j], noise.before[j]) > 5

\* ---- C28 ----

\* C28: once unpatch() has returned true, a getImageData call on the 2D
\* context of the canvas returns the host's buffer untouched, on a context
\* obtained while the module was installed as on any other.
C28_NativeAfterUnpatch ==
  [][ (ContextRead /\ ~isPatched) =>
        noise'.layers = 0 /\ noise'.after = noise'.before ]_vars

\* the buffer of a read made after unpatch() on a context obtained before it
NoisedAfterUnpatch ==
  /\ noise.op = "ctx.getImageData" /\ ~isPatched /\ ctx2d.processed
  /\ noise.layers = 2 /\ noise.after # noise.before

\* the WebGL half of the same statement: once disable() has returned, a
\* getParameter or getExtension call on a context obtained while the module
\* was enabled gets the host's answer (SpecGL)
NativeAnswersAfterDisable ==
  [][ (query' # query /\ ~initialized) => query'.answer.kind = "real" ]_vars

====
